---- MODULE Spec2Model ----
(***************************************************************************)
(* Model of the FIBO question-answering agent: the fuzzy class-name        *)
(* resolver of tools/ontology_tools.py and the plan executor of planner.py.*)
(*                                                                         *)
(* Strings are sequences of character codes (code points), so that         *)
(* lower-casing, substring tests, code-point ordering and the              *)
(* Ratcliff/Obershelp similarity of difflib are computed, not assumed.     *)
(***************************************************************************)
EXTENDS Integers, Sequences, FiniteSets, TLC

(***************************************************************************)
(* Bounds of the model                                                     *)
(***************************************************************************)
\* longest user-typed name that is enumerated
MaxLen == 3
\* largest max_suggestions argument that is enumerated
MaxSuggestions == 3
\* largest number of classes in the world
MaxClasses == 3
\* longest plan returned by the reasoning service
MaxPlanLen == 3
\* longest argument list of a step of a plan
MaxArgs == 2
\* pieces of text in a query
MaxWords == 2
\* pieces of text in a reply of the reasoning service
MaxReplyLen == 3
\* largest max_depth passed to get_related_concepts
MaxDepth == 3
\* levels of superclasses that are recorded
MaxLevel == 4

(***************************************************************************)
(* Strings                                                                 *)
(***************************************************************************)
\* Python's None, kept apart from every string (no character has code -1)
None == << -1 >>

\* the characters typed names are built from: A a b c
Alphabet == {65, 97, 98, 99}

\* str.lower() on one character
LowerChar(c) == IF c >= 65 /\ c <= 90 THEN c + 32 ELSE c

\* str.lower()
lower(s) == [i \in 1..Len(s) |-> LowerChar(s[i])]

\* set(s): the distinct characters of a string
CharSet(s) == {s[i] : i \in 1..Len(s)}

\* x in y, for strings
IsSubstring(x, y) ==
    \E i \in 0..(Len(y) - Len(x)) : SubSeq(y, i + 1, i + Len(x)) = x

\* y.startswith(x)
startswith(y, x) == Len(x) <= Len(y) /\ SubSeq(y, 1, Len(x)) = x

\* y.endswith(x)
endswith(y, x) ==
    Len(x) <= Len(y) /\ SubSeq(y, Len(y) - Len(x) + 1, Len(y)) = x

\* s < t for strings: lexicographic on code points
RECURSIVE StrLess(_, _)
StrLess(s, t) ==
    IF t = <<>> THEN FALSE
    ELSE IF s = <<>> THEN TRUE
    ELSE IF s[1] # t[1] THEN s[1] < t[1]
    ELSE StrLess(Tail(s), Tail(t))

\* sorted(S) for a set of strings
RECURSIVE SortedNames(_)
RECURSIVE LeastThenRest(_, _)
LeastThenRest(S, m) == <<m>> \o SortedNames(S \ {m})

SortedNames(S) ==
    IF S = {} THEN <<>>
    ELSE LeastThenRest(S, CHOOSE x \in S : \A y \in S \ {x} : StrLess(x, y))

\* all strings over Alphabet of length exactly n
RECURSIVE StringsOfLen(_)
StringsOfLen(n) ==
    IF n = 0 THEN {<<>>}
    ELSE {Append(s, c) : s \in StringsOfLen(n - 1), c \in Alphabet}

\* all strings over Alphabet of length at most n
StringsUpTo(n) == UNION {StringsOfLen(k) : k \in 0..n}

(***************************************************************************)
(* difflib.SequenceMatcher (a = the candidate, b = the typed word)         *)
(***************************************************************************)
\* length of the common run of a[i..ahi-1] and b[j..bhi-1]
RECURSIVE CommonRun(_, _, _, _, _, _)
CommonRun(a, b, i, j, ahi, bhi) ==
    IF i < ahi /\ j < bhi /\ a[i] = b[j]
    THEN 1 + CommonRun(a, b, i + 1, j + 1, ahi, bhi)
    ELSE 0

\* SequenceMatcher.find_longest_match: the longest block, of those the one
\* starting earliest in a, of those the one starting earliest in b
LongestBlock(alo, blo, pairs, run) ==
    IF \A p \in pairs : run[p] = 0
    THEN <<alo, blo, 0>>
    ELSE CHOOSE m \in {<<p[1], p[2], run[p]>> : p \in pairs} :
            \A q \in pairs :
               \/ m[3] > run[q]
               \/ /\ m[3] = run[q]
                  /\ \/ m[1] < q[1]
                     \/ m[1] = q[1] /\ m[2] <= q[2]

find_longest_match(a, b, alo, ahi, blo, bhi) ==
    LongestBlock(alo, blo, (alo..(ahi - 1)) \X (blo..(bhi - 1)),
                 [p \in (alo..(ahi - 1)) \X (blo..(bhi - 1)) |->
                     CommonRun(a, b, p[1], p[2], ahi, bhi)])

\* SequenceMatcher.get_matching_blocks, summed: the number of matched
\* characters; MatchedAround is one round of its queue, for the longest
\* block <<i, j, k>> of the range
RECURSIVE MatchedChars(_, _, _, _, _, _)
RECURSIVE MatchedAround(_, _, _, _, _, _, _, _, _)
MatchedAround(a, b, alo, ahi, blo, bhi, i, j, k) ==
    IF k = 0 THEN 0
    ELSE k + (IF alo < i /\ blo < j
              THEN MatchedChars(a, b, alo, i, blo, j) ELSE 0)
           + (IF i + k < ahi /\ j + k < bhi
              THEN MatchedChars(a, b, i + k, ahi, j + k, bhi) ELSE 0)

BlockAndRest(a, b, alo, ahi, blo, bhi, m) ==
    MatchedAround(a, b, alo, ahi, blo, bhi, m[1], m[2], m[3])

MatchedChars(a, b, alo, ahi, blo, bhi) ==
    BlockAndRest(a, b, alo, ahi, blo, bhi,
                 find_longest_match(a, b, alo, ahi, blo, bhi))

\* difflib._calculate_ratio: 2.0*matches/length as the fraction <<num, den>>
calculate_ratio(matches, length) ==
    IF length > 0 THEN <<2 * matches, length>> ELSE <<1, 1>>

\* SequenceMatcher.ratio
ratio(a, b) ==
    calculate_ratio(MatchedChars(a, b, 1, Len(a) + 1, 1, Len(b) + 1),
                    Len(a) + Len(b))

\* number of occurrences of c in s
Count(s, c) == Cardinality({i \in 1..Len(s) : s[i] = c})

\* sum of f over a finite set
RECURSIVE SumOver(_, _)
SumOver(S, f) ==
    IF S = {} THEN 0
    ELSE f[CHOOSE y \in S : TRUE]
           + SumOver(S \ {CHOOSE y \in S : TRUE}, f)

Min(x, y) == IF x <= y THEN x ELSE y

\* SequenceMatcher.quick_ratio: multiset intersection of the characters
quick_ratio(a, b) ==
    calculate_ratio(
        SumOver(CharSet(a) \cap CharSet(b),
                [c \in CharSet(a) \cap CharSet(b) |->
                    Min(Count(a, c), Count(b, c))]),
        Len(a) + Len(b))

\* SequenceMatcher.real_quick_ratio: from the lengths alone
real_quick_ratio(a, b) ==
    calculate_ratio(Min(Len(a), Len(b)), Len(a) + Len(b))

\* r >= q, r > q and r = q for fractions with positive denominators
FracGE(r, q) == r[1] * q[2] >= q[1] * r[2]
FracGT(r, q) == r[1] * q[2] > q[1] * r[2]
FracEQ(r, q) == r[1] * q[2] = q[1] * r[2]

\* (score, x) > (score', x'), the tuple order heapq.nlargest sorts by
ScoredGreater(r, x, q, y) ==
    FracGT(r, q) \/ (FracEQ(r, q) /\ StrLess(y, x))

\* heapq.nlargest(n, result) over the positions idx of possibilities whose
\* scores are sc, scores stripped
RECURSIVE nlargest(_, _, _, _)
RECURSIVE TopThenRest(_, _, _, _, _)
TopThenRest(n, idx, sc, possibilities, top) ==
    <<possibilities[top]>> \o nlargest(n - 1, idx \ {top}, sc, possibilities)

nlargest(n, idx, sc, possibilities) ==
    IF n = 0 \/ idx = {} THEN <<>>
    ELSE TopThenRest(n, idx, sc, possibilities,
             CHOOSE i \in idx :
                \A k \in idx \ {i} :
                   \/ ScoredGreater(sc[i], possibilities[i],
                                    sc[k], possibilities[k])
                   \/ /\ possibilities[i] = possibilities[k]
                      /\ i < k)

\* the test of get_close_matches on one possibility x
PassesCutoff(x, word, cutoff) ==
    /\ FracGE(real_quick_ratio(x, word), cutoff)
    /\ FracGE(quick_ratio(x, word), cutoff)
    /\ FracGE(ratio(x, word), cutoff)

\* difflib.get_close_matches(word, possibilities, n, cutoff);
\* exc = "ValueError" when n is not positive
BestOfPassing(word, possibilities, n, passing) ==
    nlargest(n, passing, [i \in passing |-> ratio(possibilities[i], word)],
             possibilities)

get_close_matches(word, possibilities, n, cutoff) ==
    IF ~(n > 0)
    THEN [exc |-> "ValueError", value |-> <<>>]
    ELSE [exc |-> "",
          value |-> BestOfPassing(word, possibilities, n,
                       {i \in 1..Len(possibilities) :
                           PassesCutoff(possibilities[i], word, cutoff)})]

(***************************************************************************)
(* tools/ontology_tools.py: the name resolver                              *)
(***************************************************************************)
\* cutoff of the close-match tier, 0.6
SUGGESTION_CUTOFF == <<6, 10>>
\* the close-match cutoff used where the resolve cutoff belongs
RESOLVE_CUTOFF_loose == <<6, 10>>
\* a cutoff that only an identical name passes
RESOLVE_CUTOFF_strict == <<99, 100>>
\* cutoff of resolve_class_name_fuzzy, 0.8
RESOLVE_CUTOFF == <<8, 10>>
\* bound of the character-similarity tier, 0.75
CHAR_SIMILARITY_BOUND == <<3, 4>>
\* default of max_suggestions
DEFAULT_MAX_SUGGESTIONS == 3

\* get_class_candidates(): sorted(set(all_classes)) of the default world
get_class_candidates(world) == SortedNames(world)

\* the elements of seq that satisfy Test, in order
RECURSIVE SelectInOrder(_, _)
SelectInOrder(seq, keep) ==
    IF seq = <<>> THEN <<>>
    ELSE (IF Head(seq) \in keep THEN <<Head(seq)>> ELSE <<>>)
           \o SelectInOrder(Tail(seq), keep)

\* is x an element of the list seq
InList(x, seq) == \E i \in 1..Len(seq) : seq[i] = x

\* all.extend(more), without the membership filter
ExtendAll(all, more) == all \o more

\* all.extend([m for m in more if m not in all])
ExtendNew(all, more) ==
    all \o SelectInOrder(more, {more[i] : i \in 1..Len(more)}
                                 \ {all[i] : i \in 1..Len(all)})

\* exact, with the comparison made on the names as typed and stored
exact_matches_cased(candidates, input_name) ==
    SelectInOrder(candidates,
        {candidates[i] : i \in {k \in 1..Len(candidates) :
                                   candidates[k] = input_name}})

\* tier 1: exact = [c for c in candidates if c.lower() == input_lower]
exact_matches(candidates, input_name) ==
    SelectInOrder(candidates,
        {candidates[i] : i \in {k \in 1..Len(candidates) :
                                   lower(candidates[k]) = lower(input_name)}})

\* tier 2: the candidate contains the input or is contained in it
IsSubstringMatch_contained(input_lower, candidate) ==
    IsSubstring(lower(candidate), input_lower)

\* input_lower in candidate_lower or candidate_lower in input_lower
IsSubstringMatch(input_lower, candidate) ==
    \/ IsSubstring(input_lower, lower(candidate))
    \/ IsSubstring(lower(candidate), input_lower)

substring_matches(candidates, input_lower) ==
    SelectInOrder(candidates,
        {candidates[i] : i \in {k \in 1..Len(candidates) :
                                   IsSubstringMatch(input_lower, candidates[k])}})

\* tier 4: len(input_chars & candidate_chars) / len(input_chars)
CharSimilarity(input_lower, candidate) ==
    <<Cardinality(CharSet(input_lower) \cap CharSet(lower(candidate))),
      Cardinality(CharSet(input_lower))>>

\* the test with a similarity of 0.75 let in
IsCharMatch_inclusive(input_lower, candidate) ==
    /\ Cardinality(CharSet(input_lower)) > 2
    /\ FracGE(CharSimilarity(input_lower, candidate), CHAR_SIMILARITY_BOUND)

IsCharMatch(input_lower, candidate) ==
    /\ Cardinality(CharSet(input_lower)) > 2
    /\ FracGT(CharSimilarity(input_lower, candidate), CHAR_SIMILARITY_BOUND)

\* char_matches.sort(key=similarity, reverse=True): stable, so equal
\* similarities keep the order of the candidates
RECURSIVE SortBySimilarity(_, _, _)
RECURSIVE MostSimilarThenRest(_, _, _, _)
MostSimilarThenRest(idx, input_lower, candidates, top) ==
    <<candidates[top]>>
      \o SortBySimilarity(idx \ {top}, input_lower, candidates)

SortBySimilarity(idx, input_lower, candidates) ==
    IF idx = {} THEN <<>>
    ELSE MostSimilarThenRest(idx, input_lower, candidates,
             CHOOSE i \in idx :
                \A k \in idx \ {i} :
                   \/ FracGT(CharSimilarity(input_lower, candidates[i]),
                             CharSimilarity(input_lower, candidates[k]))
                   \/ /\ FracEQ(CharSimilarity(input_lower, candidates[i]),
                                CharSimilarity(input_lower, candidates[k]))
                      /\ i < k)

char_matches(candidates, input_lower) ==
    SortBySimilarity({i \in 1..Len(candidates) :
                         IsCharMatch(input_lower, candidates[i])},
                     input_lower, candidates)

\* tier 5: one is a prefix or a suffix of the other
IsAffixMatch(input_lower, candidate) ==
    \/ startswith(lower(candidate), input_lower)
    \/ endswith(lower(candidate), input_lower)
    \/ startswith(input_lower, lower(candidate))
    \/ endswith(input_lower, lower(candidate))

affix_matches(candidates, input_lower) ==
    SelectInOrder(candidates,
        {candidates[i] : i \in {k \in 1..Len(candidates) :
                                   IsAffixMatch(input_lower, candidates[k])}})

\* the tiers combined with the character tier ahead of the close matches
all_suggestions_swapped(substring, close, chars, affix) ==
    ExtendNew(ExtendNew(ExtendNew(substring, chars), close), affix)

\* all_suggestions: the tiers combined with priority
all_suggestions(substring, close, chars, affix) ==
    ExtendNew(ExtendNew(ExtendNew(substring, close), chars), affix)

\* all_suggestions[:max_suggestions]
Slice(seq, n) ==
    IF n >= 0 THEN SubSeq(seq, 1, Min(n, Len(seq)))
    ELSE SubSeq(seq, 1, Len(seq) + n)

\* the return statements of get_class_suggestions
suggestions_or_none(final_suggestions) ==
    IF final_suggestions # <<>>
    THEN [type |-> "suggestions", match |-> None,
          suggestions |-> final_suggestions]
    ELSE [type |-> "none", match |-> None, suggestions |-> <<>>]

\* get_class_suggestions once candidates, exact and close_matches are
\* computed; type "ValueError" stands for the exception difflib raises
suggestions_from(candidates, input_lower, max_suggestions, exact, close) ==
    IF candidates = <<>>
    THEN [type |-> "none", match |-> None, suggestions |-> <<>>]
    ELSE IF exact # <<>>
    THEN [type |-> "exact", match |-> exact[1], suggestions |-> <<>>]
    ELSE IF close.exc # ""
    THEN [type |-> close.exc, match |-> None, suggestions |-> <<>>]
    ELSE suggestions_or_none(
             Slice(all_suggestions(substring_matches(candidates, input_lower),
                                   close.value,
                                   char_matches(candidates, input_lower),
                                   affix_matches(candidates, input_lower)),
                   max_suggestions))

\* get_class_suggestions for a given candidate list
suggestions_among(candidates, input_name, max_suggestions) ==
    suggestions_from(candidates, lower(input_name), max_suggestions,
                     exact_matches(candidates, input_name),
                     get_close_matches(input_name, candidates,
                                       max_suggestions * 2,
                                       SUGGESTION_CUTOFF))

\* get_class_suggestions(input_name, max_suggestions) against the classes
\* of world
get_class_suggestions(world, input_name, max_suggestions) ==
    suggestions_among(get_class_candidates(world), input_name,
                      max_suggestions)

\* return best_match[0], lower-cased
best_or_none_lowered(best_match) ==
    IF best_match.value # <<>> THEN lower(best_match.value[1]) ELSE None

\* if best_match: return best_match[0]; else fall through to return None
best_or_none(best_match) ==
    IF best_match.value # <<>> THEN best_match.value[1] ELSE None

\* resolve_class_name_fuzzy once result is computed
resolve_from(result, input_name) ==
    IF result.type = "exact" THEN result.match
    ELSE IF result.type = "suggestions" /\ result.suggestions # <<>>
    THEN best_or_none(get_close_matches(input_name, result.suggestions,
                                        1, RESOLVE_CUTOFF))
    ELSE None

\* resolve_class_name_fuzzy(input_name) against the classes of world
resolve_class_name_fuzzy(world, input_name) ==
    resolve_from(get_class_suggestions(world, input_name,
                                       DEFAULT_MAX_SUGGESTIONS),
                 input_name)

\* format_suggestions_message(input_name) once result is computed; kind
\* "None" is the None returned on an exact match
suggestions_message(result, input_name) ==
    IF result.type = "exact"
    THEN [kind |-> "None", suggestions |-> <<>>, name |-> None]
    ELSE IF result.type = "suggestions"
    THEN IF Len(result.suggestions) = 1
         THEN [kind |-> "did_you_mean",
               suggestions |-> result.suggestions, name |-> None]
         ELSE [kind |-> "did_you_mean_one_of",
               suggestions |-> result.suggestions, name |-> None]
    ELSE [kind |-> "no_similar_classes", suggestions |-> <<>>,
          name |-> input_name]

\* a message that leaves the suggestions out
format_suggestions_message_bare(world, input_name) ==
    [kind |-> "no_similar_classes", suggestions |-> <<>>, name |-> input_name]

\* format_suggestions_message(input_name) against the classes of world
format_suggestions_message(world, input_name) ==
    suggestions_message(get_class_suggestions(world, input_name,
                                              DEFAULT_MAX_SUGGESTIONS),
                        input_name)

(***************************************************************************)
(* planner.py: execute_single_function                                     *)
(*                                                                         *)
(* A call returns [exc, result, kb]: exc names the exception that left the *)
(* call ("" when it returned), result is the returned dictionary and kb    *)
(* lists the knowledge-base functions that were invoked, with the          *)
(* arguments they received.                                                *)
(***************************************************************************)
single_class_functions ==
    {"get_superclasses", "get_subclasses", "get_properties",
     "describe_class", "explain_class", "get_related_concepts",
     "get_class_info", "get_all_superclasses", "get_inferred_properties"}

two_class_functions == {"explain_relationship", "get_reasoning_chain"}

\* the dispatch branches that call their function with *args and one
\* parameter
one_parameter_functions ==
    {"get_superclasses", "get_subclasses", "get_properties",
     "describe_class", "explain_class", "get_class_info",
     "get_all_superclasses", "get_inferred_properties",
     "get_property_details"}

NoMessage == [kind |-> "", suggestions |-> <<>>, name |-> None]
NoResult ==
    [function |-> "",
     output |-> [kind |-> "", name |-> None, args |-> <<>>,
                 message |-> NoMessage]]

\* "not resolved", the truth value of what the resolver returned
Unresolved(resolved) == resolved = None \/ resolved = <<>>

\* return {"function": func, "output": <text of kind, about name>}
Returns(func, kind, name, args, message, kb) ==
    [exc |-> "",
     result |-> [function |-> func,
                 output |-> [kind |-> kind, name |-> name, args |-> args,
                             message |-> message]],
     kb |-> kb]

\* an exception leaves execute_single_function
Raises(exc) == [exc |-> exc, result |-> NoResult, kb |-> <<>>]

\* func(*args) for a knowledge-base function of lo..hi parameters
CallKnowledgeBase(func, args, lo, hi) ==
    IF Len(args) >= lo /\ Len(args) <= hi
    THEN Returns(func, "kb_result", None, args, NoMessage,
                 <<[function |-> func, args |-> args]>>)
    ELSE Raises("TypeError")

\* "Class '{original_name}' not found.\n{suggestion_msg}"
ClassNotFound(world, func, original_name) ==
    Returns(func, "class_not_found", original_name, <<>>,
            format_suggestions_message(world, original_name), <<>>)

\* the if/elif chain "Execute the function"
Dispatch(func, args) ==
    IF func \in one_parameter_functions
    THEN CallKnowledgeBase(func, args, 1, 1)
    ELSE IF func = "get_related_concepts"
    THEN CallKnowledgeBase(func, args, 1, 2)
    ELSE IF func \in two_class_functions
    THEN IF Len(args) >= 2
         THEN CallKnowledgeBase(func, <<args[1], args[2]>>, 2, 2)
         ELSE Returns(func, "requires_two_class_names", None, <<>>,
                      NoMessage, <<>>)
    ELSE Returns(func, "unsupported_function", None, <<>>, NoMessage, <<>>)

\* the loop over the two names resolving the first one only
resolve_two_first_only(world, func, args, r1, r2) ==
    IF Unresolved(r1) THEN ClassNotFound(world, func, args[1])
    ELSE Dispatch(func, [args EXCEPT ![1] = r1])

\* for i in range(2): resolve args[i] or return the not-found message;
\* r1 and r2 are what the resolver returns for args[0] and args[1]
resolve_two(world, func, args, r1, r2) ==
    IF Unresolved(r1) THEN ClassNotFound(world, func, args[1])
    ELSE IF Unresolved(r2) THEN ClassNotFound(world, func, args[2])
    ELSE Dispatch(func, [args EXCEPT ![1] = r1, ![2] = r2])

\* the block "functions that need two class names" and what follows it
resolve_pair_and_dispatch(world, func, args) ==
    IF func \in two_class_functions /\ Len(args) >= 2
    THEN resolve_two(world, func, args,
                     resolve_class_name_fuzzy(world, args[1]),
                     resolve_class_name_fuzzy(world, args[2]))
    ELSE Dispatch(func, args)

\* the name is resolved but the typed text is what is dispatched
resolve_one_unsubstituted(world, func, args, resolved_name) ==
    IF Unresolved(resolved_name) THEN ClassNotFound(world, func, args[1])
    ELSE resolve_pair_and_dispatch(world, func, args)

\* args[0] = resolved, or the not-found message
resolve_one(world, func, args, resolved_name) ==
    IF Unresolved(resolved_name) THEN ClassNotFound(world, func, args[1])
    ELSE resolve_pair_and_dispatch(world, func,
                                   [args EXCEPT ![1] = resolved_name])

\* the block "functions that need class name resolution" and what follows
resolve_and_dispatch(world, func, args) ==
    IF func \in single_class_functions /\ args # <<>>
    THEN resolve_one(world, func, args,
                     resolve_class_name_fuzzy(world, args[1]))
    ELSE resolve_pair_and_dispatch(world, func, args)

\* args after "args[i] = resolved" for i in range(2), as far as the loop
\* gets
substituted_two(args, r1, r2) ==
    IF Unresolved(r1) THEN args
    ELSE IF Unresolved(r2) THEN [args EXCEPT ![1] = r1]
    ELSE [args EXCEPT ![1] = r1, ![2] = r2]

\* args after "args[0] = resolved", when the name was resolved
substituted_one(args, resolved_name) ==
    IF Unresolved(resolved_name) THEN args
    ELSE [args EXCEPT ![1] = resolved_name]

\* the list func_call["arguments"] once execute_single_function is left:
\* args is that very list, and the resolved names are assigned into it
arguments_after(world, func_call) ==
    IF func_call.function \in single_class_functions
         /\ func_call.arguments # <<>>
    THEN substituted_one(func_call.arguments,
             resolve_class_name_fuzzy(world, func_call.arguments[1]))
    ELSE IF func_call.function \in two_class_functions
              /\ Len(func_call.arguments) >= 2
    THEN substituted_two(func_call.arguments,
             resolve_class_name_fuzzy(world, func_call.arguments[1]),
             resolve_class_name_fuzzy(world, func_call.arguments[2]))
    ELSE func_call.arguments

\* list_classes shows the first 100 candidates
LIST_CLASSES_LIMIT == 100

\* execute_single_function(func_call) against the classes of world
execute_single_function(world, func_call) ==
    IF func_call.function = "list_classes"
    THEN Returns("list_classes", "class_list", None,
                 Slice(get_class_candidates(world), LIST_CLASSES_LIMIT),
                 NoMessage, <<>>)
    ELSE IF func_call.function = "get_ontology_stats"
    THEN CallKnowledgeBase("get_ontology_stats", <<>>, 0, 0)
    ELSE IF func_call.function = "search_classes_by_keyword"
    THEN IF func_call.arguments # <<>>
         THEN CallKnowledgeBase("search_classes_by_keyword",
                                func_call.arguments, 1, 1)
         ELSE Returns("search_classes_by_keyword", "requires_keyword", None,
                      <<>>, NoMessage, <<>>)
    ELSE resolve_and_dispatch(world, func_call.function, func_call.arguments)

(***************************************************************************)
(* tools/ontology_tools.py: what the knowledge-base functions return first *)
(*                                                                         *)
(* The classes of the model have a name and neither label nor comment;     *)
(* what a function returns once it has found its class is "answer".        *)
(***************************************************************************)
\* "No ontology loaded. Please load modules first."
NO_ONTOLOGY_LOADED == "no_ontology_loaded"

\* search_classes_by_keyword(keyword): no check of onto, the classes of the
\* default world are searched
search_classes_by_keyword(world, keyword) ==
    IF \E c \in world : IsSubstring(lower(keyword), lower(c))
    THEN "found_classes"
    ELSE "no_classes_found"

\* get_ontology_stats(): if not owlready2.default_world.ontologies
get_ontology_stats(world) ==
    IF world = {} THEN NO_ONTOLOGY_LOADED ELSE "ontology_statistics"

\* every other function of the menu begins with "if onto is None"
checks_onto_first(onto_value) ==
    IF onto_value = "None" THEN NO_ONTOLOGY_LOADED ELSE "answer"

\* the text a knowledge-base function returns for the call it received
knowledge_base_output(onto_value, world, call) ==
    IF call.function = "search_classes_by_keyword"
    THEN search_classes_by_keyword(world, call.args[1])
    ELSE IF call.function = "get_ontology_stats"
    THEN get_ontology_stats(world)
    ELSE checks_onto_first(onto_value)

(***************************************************************************)
(* State                                                                   *)
(***************************************************************************)
VARIABLES
    world_classes,    \* names of the classes of owlready2.default_world
    onto,             \* the global onto: "None" or the primary ontology
    CURRENT_MODULE_SET, \* the global CURRENT_MODULE_SET
    MODULE_FILES,     \* the global MODULE_FILES
    load_pc,          \* where a running load_fibo_modules stands
    fresh_world,      \* classes of the variable world of load_fibo_modules
    world_object,     \* the World object that variable refers to
    default_world,    \* the World object owlready2.default_world refers to
    onto_world,       \* the World object the ontology onto was loaded into
    module_call,      \* the last call of the module-set functions
    module_result,    \* what that call returned
    input_name,       \* argument of the resolver calls
    max_suggestions,  \* argument of get_class_suggestions
    sug_result,       \* what get_class_suggestions returned
    fuzzy_result,     \* what resolve_class_name_fuzzy returned
    user_input,       \* argument of run_natural_language_query
    use_multi_step,   \* the variable use_multi_step
    raw_plan,         \* the variable raw_plan
    llm_calls,        \* calls of call_local_llm so far
    plan,             \* json.loads(raw_plan) in run_natural_language_query
    pc,               \* where run_natural_language_query stands
    step_no,          \* position of the loop over the plan
    results,          \* the list results
    final_analysis,   \* the variable final_analysis
    response,         \* what run_natural_language_query returned
    last_step,        \* the last call of execute_single_function
    executed,         \* positions of the plan handled so far, in order
    kb_calls,         \* knowledge-base functions invoked so far
    synth_calls,      \* calls of gemma_synthesize_results so far
    step_pc,          \* where a call of execute_single_function stands
    original_name,    \* the variable original_name of that call
    resolved,         \* the variable resolved of that call
    resolved_against, \* the candidates its resolver call read
    step_output,      \* the output of that call
    ontology_classes, \* the classes that ontology.classes() yields
    kb_call,          \* the knowledge-base function called, its arguments
    kb_pc,            \* where that call stands
    kb_output,        \* what it returned
    queue,            \* get_related_concepts: the variable queue
    visited,          \* get_related_concepts: the variable visited
    related,          \* get_related_concepts: the variable related
    current_level,    \* get_all_superclasses: the variable current_level
    level,            \* get_all_superclasses: the variable level
    levels,           \* get_all_superclasses: the variable levels
    query_input,      \* the text of the input box of the web interface
    run_query,        \* st.session_state['run_query']
    force_multistep,  \* st.session_state['force_multistep']
    query,            \* argument of run_query of the web interface
    query_type,       \* the query type run_query announces
    ui_pc,            \* where a run of the script of the interface stands
    last_result       \* what run_query_with_module_awareness returned

module_vars == <<onto, CURRENT_MODULE_SET, MODULE_FILES, load_pc,
                 fresh_world, world_object, default_world, onto_world,
                 module_call, module_result>>

resolver_vars == <<input_name, max_suggestions, sug_result, fuzzy_result>>

query_vars == <<user_input, use_multi_step, raw_plan, llm_calls>>

planner_vars == <<plan, pc, step_no, results, final_analysis, response,
                  last_step, executed, kb_calls, synth_calls>>

step_vars == <<step_pc, original_name, resolved, resolved_against,
               step_output>>

kb_vars == <<ontology_classes, kb_call, kb_pc, kb_output, queue, visited,
             related, current_level, level, levels>>

ui_vars == <<query_input, run_query, force_multistep, query, query_type,
            ui_pc, last_result>>

vars == <<world_classes, module_vars, resolver_vars, query_vars,
          planner_vars, step_vars, kb_vars, ui_vars>>

\* a call that has not been made yet
Pending == << -2 >>
PendingSuggestions ==
    [type |-> "pending", match |-> None, suggestions |-> <<>>]

\* class names the worlds are built from:
\* Ab, AB, Abca, CbA, Abb, c, abcab
ClassNamePool ==
    {<<65, 98>>, <<65, 66>>, <<65, 98, 99, 97>>, <<67, 98, 65>>,
     <<65, 98, 98>>, <<99>>, <<97, 98, 99, 97, 98>>}

\* the worlds: no class at all (nothing loaded) up to MaxClasses classes
Worlds == {w \in SUBSET ClassNamePool : Cardinality(w) <= MaxClasses}

\* the names a user may type
TypedNames == StringsUpTo(MaxLen)

\* no plan yet, nothing executed
NoPlan == [kind |-> "none", steps |-> <<>>]
NoAnalysis == [given |-> <<>>, made |-> FALSE]
NoResponse == [kind |-> "none", individual |-> <<>>, analysis |-> NoAnalysis]
NoStep ==
    [call |-> [has_function |-> FALSE, function |-> "", arguments |-> <<>>,
               step |-> ""],
     exc |-> "", result |-> NoResult, kb |-> <<>>]

\* the module as imported: onto = None, CURRENT_MODULE_SET = "core",
\* MODULE_FILES = MODULE_SETS["core"]["modules"], no load running
DEFAULT_MODULE_SET == "core"

\* the global onto of a process whose world holds the classes of world
OntoFor(world) == IF world = {} THEN "None" ELSE "ontology"

\* World objects: owlready2 starts with one default world, and World()
\* returns an object distinct from every world still referred to
INITIAL_WORLD == 0
NoWorld == -1
WorldObjects == 0..3
new_world(live) == CHOOSE w \in WorldObjects \ live :
                       \A v \in WorldObjects \ live : w <= v

\* no call of the module-set functions yet
NoModuleCall == [function |-> "", name |-> ""]
NoModuleResult == [kind |-> "none"]

\* MODULE_SETS[name]["modules"]
MODULES(name) ==
    CASE name = "core" ->
           <<"FND/Accounting/AccountingEquity.rdf",
             "FND/OwnershipAndControl/Ownership.rdf",
             "SEC/Equities/EquityInstruments.rdf">>
      [] name = "comprehensive" ->
           <<"FND/Accounting/AccountingEquity.rdf",
             "FND/OwnershipAndControl/Ownership.rdf",
             "SEC/Equities/EquityInstruments.rdf",
             "FND/Accounting/CurrencyAmount.rdf",
             "FND/Relations/Relations.rdf",
             "FND/Utilities/Values.rdf",
             "FND/DatesAndTimes/FinancialDates.rdf",
             "SEC/Securities/Securities.rdf",
             "SEC/Securities/SecuritiesIdentification.rdf",
             "SEC/Securities/SecuritiesIssuance.rdf",
             "SEC/Securities/SecuritiesListings.rdf",
             "FBC/FinancialInstruments/FinancialInstruments.rdf",
             "FBC/ProductsAndServices/FinancialProductsAndServices.rdf",
             "FBC/FunctionalEntities/FinancialServicesEntities.rdf",
             "FBC/DebtAndEquities/Debt.rdf",
             "BE/LegalEntities/LegalPersons.rdf">>
      [] name = "banking" ->
           <<"FND/Accounting/AccountingEquity.rdf",
             "FND/Accounting/CurrencyAmount.rdf",
             "FBC/FinancialInstruments/FinancialInstruments.rdf",
             "FBC/ProductsAndServices/FinancialProductsAndServices.rdf",
             "FBC/FunctionalEntities/FinancialServicesEntities.rdf",
             "FBC/DebtAndEquities/Debt.rdf">>
      [] name = "securities" ->
           <<"SEC/Equities/EquityInstruments.rdf",
             "SEC/Securities/Securities.rdf",
             "SEC/Securities/SecuritiesIdentification.rdf",
             "SEC/Securities/SecuritiesIssuance.rdf",
             "SEC/Securities/SecuritiesListings.rdf",
             "FBC/FinancialInstruments/FinancialInstruments.rdf">>

\* a process whose default world holds classes has loaded them into the
\* first world it created; one without classes has loaded nothing
ModuleVarsFor(classes) ==
    /\ onto = OntoFor(classes)
    /\ CURRENT_MODULE_SET = DEFAULT_MODULE_SET
    /\ MODULE_FILES = MODULES(DEFAULT_MODULE_SET)
    /\ load_pc = "idle"
    /\ fresh_world = {}
    /\ world_object = NoWorld
    /\ default_world = IF classes = {} THEN INITIAL_WORLD ELSE 1
    /\ onto_world = IF classes = {} THEN NoWorld ELSE 1
    /\ module_call = NoModuleCall
    /\ module_result = NoModuleResult

\* no query text received, the reasoning service not called
QueryIdle ==
    /\ user_input = <<>>
    /\ use_multi_step = FALSE
    /\ raw_plan = <<>>
    /\ llm_calls = <<>>

\* no call of execute_single_function under way
StepIdle ==
    /\ step_pc = "idle"
    /\ original_name = <<>>
    /\ resolved = Pending
    /\ resolved_against = <<>>
    /\ step_output = NoResult.output

\* no knowledge-base function called directly
NoCall == [function |-> "", name |-> <<>>, max_depth |-> 0]
NoOutput == [kind |-> "", count |-> 0, listed |-> <<>>]

KbIdle ==
    /\ ontology_classes = <<>>
    /\ kb_call = NoCall
    /\ kb_pc = "idle"
    /\ kb_output = NoOutput
    /\ queue = <<>>
    /\ visited = {}
    /\ related = <<>>
    /\ current_level = <<>>
    /\ level = 0
    /\ levels = <<>>

\* the web interface as a session starts: no text typed, no flag set, no
\* query run
NoLastResult == [kind |-> "none"]

UiIdle ==
    /\ query_input = <<>>
    /\ run_query = FALSE
    /\ force_multistep = FALSE
    /\ query = <<>>
    /\ query_type = ""
    /\ ui_pc = "idle"
    /\ last_result = NoLastResult

\* run_natural_language_query has not been called
PlannerIdle ==
    /\ plan = NoPlan
    /\ pc = "idle"
    /\ step_no = 0
    /\ results = <<>>
    /\ final_analysis = NoAnalysis
    /\ response = NoResponse
    /\ last_step = NoStep
    /\ executed = <<>>
    /\ kb_calls = <<>>
    /\ synth_calls = <<>>

(***************************************************************************)
(* The names of the test battery and of the scenarios                      *)
(***************************************************************************)
PaidInCapital ==
    <<80, 97, 105, 100, 73, 110, 67, 97, 112, 105, 116, 97, 108>>
CapitalSurplus ==
    <<67, 97, 112, 105, 116, 97, 108, 83, 117, 114, 112, 108, 117, 115>>
OwnersEquity ==
    <<79, 119, 110, 101, 114, 115, 69, 113, 117, 105, 116, 121>>
PaidInCapit ==
    <<80, 97, 105, 100, 73, 110, 67, 97, 112, 105, 116>>
ShareholdersEquity ==
    <<83, 104, 97, 114, 101, 104, 111, 108, 100, 101, 114, 115, 69, 113,
      117, 105, 116, 121>>
ShareholderEquity ==
    <<83, 104, 97, 114, 101, 104, 111, 108, 100, 101, 114, 69, 113, 117,
      105, 116, 121>>
Share ==
    <<83, 104, 97, 114, 101>>
Equity ==
    <<69, 113, 117, 105, 116, 121>>
Shareholder ==
    <<83, 104, 97, 114, 101, 104, 111, 108, 100, 101, 114>>
XShareholderEquity ==
    <<88, 83, 104, 97, 114, 101, 104, 111, 108, 100, 101, 114, 69, 113, 117,
      105, 116, 121>>
ShareholdertEquity ==
    <<83, 104, 97, 114, 101, 104, 111, 108, 100, 101, 114, 116, 69, 113,
      117, 105, 116, 121>>
SHAREHOLDEREQUITY ==
    <<83, 72, 65, 82, 69, 72, 79, 76, 68, 69, 82, 69, 81, 85, 73, 84, 89>>

\* the classes of the typo-correction test
AccountingEquityClasses == {PaidInCapital, CapitalSurplus, OwnersEquity}

\* classes that may stand beside ShareholdersEquity
OtherClasses ==
    {OwnersEquity, Share, Equity, Shareholder, XShareholderEquity,
     ShareholdertEquity}

\* the worlds of the scenarios
ScenarioWorlds ==
    {AccountingEquityClasses}
      \cup {{ShareholdersEquity} \cup others :
               others \in {o \in SUBSET OtherClasses :
                              Cardinality(o) <= MaxClasses}}

\* the names typed in the scenarios
ScenarioNames == {PaidInCapit, ShareholderEquity, SHAREHOLDEREQUITY}

\* worlds of the classes Bcdefgh, abcdefgi, abcdefx, hgfedcbax: of the
\* characters of abcdefgh they have 7/8, 7/8, 6/8 and all, of those of abcd
\* 3/4 and all
CharScenarioWorlds ==
    SUBSET {<<66, 99, 100, 101, 102, 103, 104>>,
            <<97, 98, 99, 100, 101, 102, 103, 105>>,
            <<97, 98, 99, 100, 101, 102, 120>>,
            <<104, 103, 102, 101, 100, 99, 98, 97, 120>>}

\* typed names of four and of eight distinct characters: abcd, abcdefgh
CharScenarioNames ==
    {<<97, 98, 99, 100>>, <<97, 98, 99, 100, 101, 102, 103, 104>>}

(***************************************************************************)
(* The resolver called on every typed name against every world             *)
(***************************************************************************)
InitResolver ==
    /\ \/ world_classes \in Worlds /\ input_name \in TypedNames
       \/ world_classes \in ScenarioWorlds /\ input_name \in ScenarioNames
       \/ /\ world_classes \in CharScenarioWorlds
          /\ input_name \in CharScenarioNames
    /\ max_suggestions \in 0..MaxSuggestions
    /\ sug_result = PendingSuggestions
    /\ fuzzy_result = Pending
    /\ ModuleVarsFor(world_classes)
    /\ QueryIdle
    /\ PlannerIdle
    /\ StepIdle
    /\ KbIdle
    /\ UiIdle

CallGetClassSuggestions ==
    /\ sug_result.type = "pending"
    /\ sug_result' = get_class_suggestions(world_classes, input_name,
                                           max_suggestions)
    /\ UNCHANGED <<ui_vars, kb_vars, world_classes, input_name,
                   max_suggestions, fuzzy_result, module_vars, query_vars,
                   planner_vars, step_vars>>

CallResolveClassNameFuzzy ==
    /\ fuzzy_result = Pending
    /\ fuzzy_result' = resolve_class_name_fuzzy(world_classes, input_name)
    /\ UNCHANGED <<ui_vars, kb_vars, world_classes, input_name,
                   max_suggestions, sug_result, module_vars, query_vars,
                   planner_vars, step_vars>>

NextResolver == CallGetClassSuggestions \/ CallResolveClassNameFuzzy

SpecResolver == InitResolver /\ [][NextResolver]_vars

(***************************************************************************)
(* planner.py: run_natural_language_query over the plans the reasoning     *)
(* service may return                                                      *)
(***************************************************************************)
\* {"function": func, "arguments": args}
FunctionStep(func, args) ==
    [has_function |-> TRUE, function |-> func, arguments |-> args,
     step |-> ""]

\* {"step": "analysis", "instruction": ...}
AnalysisStep ==
    [has_function |-> FALSE, function |-> "", arguments |-> <<>>,
     step |-> "analysis"]

\* a dictionary with neither a function nor an analysis step
OtherStep ==
    [has_function |-> FALSE, function |-> "", arguments |-> <<>>,
     step |-> "other"]

\* a number or null as an element of the list
ScalarStep ==
    [has_function |-> FALSE, function |-> "", arguments |-> <<>>,
     step |-> "scalar"]

\* all sequences over S of length exactly n, and of length at most n
RECURSIVE SeqsOfLen(_, _)
SeqsOfLen(S, n) ==
    IF n = 0 THEN {<<>>}
    ELSE {Append(q, x) : q \in SeqsOfLen(S, n - 1), x \in S}

SeqsUpTo(S, n) == UNION {SeqsOfLen(S, k) : k \in 0..n}

\* the loaded knowledge bases of the planner runs: nothing loaded, and the
\* classes Ab and Abca
PlannerWorlds == {{}, {<<65, 98>>, <<65, 98, 99, 97>>}}

\* names the reasoning service passes: ab (an exact match of Ab), Aca
\* (resolved to Abca), bc (suggestions only), cb (no similar class)
PlanNames == {<<97, 98>>, <<65, 99, 97>>, <<98, 99>>, <<99, 98>>}

\* the names used in the steps of multi-step plans: ab and bc
ListNames == {<<97, 98>>, <<98, 99>>}

\* the operations of the menu, and one that is not on it
PlannerFunctions ==
    single_class_functions \cup two_class_functions
      \cup {"list_classes", "get_ontology_stats", "search_classes_by_keyword",
            "get_property_details", "get_everything"}

SinglePlans ==
    {[kind |-> "object", steps |-> <<FunctionStep(f, a)>>] :
        f \in PlannerFunctions, a \in SeqsUpTo(PlanNames, MaxArgs)}

ListSteps ==
    {FunctionStep(f, a) :
        f \in {"get_superclasses", "explain_relationship"},
        a \in SeqsUpTo(ListNames, MaxArgs)}
      \cup {AnalysisStep, OtherStep, ScalarStep}

ListPlans ==
    {[kind |-> "list", steps |-> p] : p \in SeqsUpTo(ListSteps, MaxPlanLen)}

\* valid JSON that is neither a list nor a dictionary with "function"
InvalidPlan == [kind |-> "invalid", steps |-> <<>>]

Plans == SinglePlans \cup ListPlans \cup {InvalidPlan}

InitPlanner ==
    /\ world_classes \in PlannerWorlds
    /\ input_name = <<>>
    /\ max_suggestions = DEFAULT_MAX_SUGGESTIONS
    /\ sug_result = PendingSuggestions
    /\ fuzzy_result = Pending
    /\ ModuleVarsFor(world_classes)
    /\ QueryIdle
    /\ PlannerIdle
    /\ StepIdle
    /\ KbIdle
    /\ UiIdle

\* what is recorded of one call of execute_single_function
StepRecord(call, r) ==
    [call |-> call, exc |-> r.exc, result |-> r.result, kb |-> r.kb]

\* results.insert(0, result)
PrependResult(list, result) == <<result>> \o list

\* results.append(result)
AppendResult(list, result) == Append(list, result)

\* the plan is obtained from the reasoning service and parsed
PlanQuery ==
    /\ pc = "idle"
    /\ plan' \in Plans
    /\ pc' = "parsed"
    /\ UNCHANGED <<ui_vars, kb_vars, world_classes, module_vars,
                   resolver_vars, query_vars, step_vars, step_no, results,
                   final_analysis, response, last_step, executed, kb_calls,
                   synth_calls>>

\* if isinstance(plan, dict) and "function" in plan
ExecuteSinglePlan ==
    /\ pc = "parsed"
    /\ plan.kind = "object"
    /\ last_step' = StepRecord(plan.steps[1],
                       execute_single_function(world_classes, plan.steps[1]))
    /\ kb_calls' = kb_calls \o last_step'.kb
    /\ executed' = Append(executed, 1)
    /\ IF last_step'.exc = ""
       THEN /\ response' = [kind |-> "single",
                            individual |-> <<last_step'.result>>,
                            analysis |-> NoAnalysis]
            /\ pc' = "returned"
       ELSE /\ response' = response
            /\ pc' = "raised"
    /\ plan' = [plan EXCEPT !.steps[1].arguments =
                     arguments_after(world_classes, plan.steps[1])]
    /\ UNCHANGED <<ui_vars, kb_vars, world_classes, module_vars,
                   resolver_vars, query_vars, step_vars, step_no, results,
                   final_analysis, synth_calls>>

\* elif isinstance(plan, list): results = [], final_analysis = None
StartMultiStep ==
    /\ pc = "parsed"
    /\ plan.kind = "list"
    /\ pc' = "loop"
    /\ step_no' = 1
    /\ results' = <<>>
    /\ final_analysis' = NoAnalysis
    /\ UNCHANGED <<ui_vars, kb_vars, world_classes, module_vars,
                   resolver_vars, query_vars, step_vars, plan, response,
                   last_step, executed, kb_calls, synth_calls>>

\* one round of the loop: if "function" in step
ExecuteFunctionStep ==
    /\ pc = "loop"
    /\ step_no <= Len(plan.steps)
    /\ plan.steps[step_no].has_function
    /\ last_step' = StepRecord(plan.steps[step_no],
                       execute_single_function(world_classes,
                                               plan.steps[step_no]))
    /\ kb_calls' = kb_calls \o last_step'.kb
    /\ executed' = Append(executed, step_no)
    /\ IF last_step'.exc = ""
       THEN /\ results' = AppendResult(results, last_step'.result)
            /\ step_no' = step_no + 1
            /\ pc' = "loop"
       ELSE /\ results' = results
            /\ step_no' = step_no
            /\ pc' = "raised"
    /\ plan' = [plan EXCEPT !.steps[step_no].arguments =
                     arguments_after(world_classes, plan.steps[step_no])]
    /\ UNCHANGED <<ui_vars, kb_vars, world_classes, module_vars,
                   resolver_vars, query_vars, step_vars, final_analysis,
                   response, synth_calls>>

\* one round of the loop: elif step["step"] == "analysis"
SynthesizeStep ==
    /\ pc = "loop"
    /\ step_no <= Len(plan.steps)
    /\ ~plan.steps[step_no].has_function
    /\ plan.steps[step_no].step = "analysis"
    /\ final_analysis' = [given |-> results, made |-> TRUE]
    /\ synth_calls' = Append(synth_calls,
                             [at |-> step_no, results |-> results])
    /\ executed' = Append(executed, step_no)
    /\ step_no' = step_no + 1
    /\ UNCHANGED <<ui_vars, kb_vars, world_classes, module_vars,
                   resolver_vars, query_vars, step_vars, plan, pc, results,
                   response, last_step, kb_calls>>

\* one round of the loop: a step that is neither
SkipStep ==
    /\ pc = "loop"
    /\ step_no <= Len(plan.steps)
    /\ ~plan.steps[step_no].has_function
    /\ plan.steps[step_no].step \notin {"analysis", "scalar"}
    /\ executed' = Append(executed, step_no)
    /\ step_no' = step_no + 1
    /\ UNCHANGED <<ui_vars, kb_vars, world_classes, module_vars,
                   resolver_vars, query_vars, step_vars, plan, pc, results,
                   final_analysis, response, last_step, kb_calls,
                   synth_calls>>

\* one round of the loop: "function" in step raises TypeError for a step
\* that is a number or null, and the exception leaves the loop
TestScalarStep ==
    /\ pc = "loop"
    /\ step_no <= Len(plan.steps)
    /\ plan.steps[step_no].step = "scalar"
    /\ executed' = Append(executed, step_no)
    /\ pc' = "raised"
    /\ UNCHANGED <<ui_vars, kb_vars, world_classes, module_vars,
                   resolver_vars, query_vars, step_vars, plan, step_no,
                   results, final_analysis, response, last_step, kb_calls,
                   synth_calls>>

\* after the loop: the individual results, then the analysis if any
CompileResponse ==
    /\ pc = "loop"
    /\ step_no > Len(plan.steps)
    /\ response' = [kind |-> "multi", individual |-> results,
                    analysis |-> final_analysis]
    /\ pc' = "returned"
    /\ UNCHANGED <<ui_vars, kb_vars, world_classes, module_vars,
                   resolver_vars, query_vars, step_vars, plan, step_no,
                   results, final_analysis, last_step, executed, kb_calls,
                   synth_calls>>

\* else: return "Invalid plan format"
ReturnInvalidPlan ==
    /\ pc = "parsed"
    /\ plan.kind = "invalid"
    /\ response' = [kind |-> "invalid_plan_format", individual |-> <<>>,
                    analysis |-> NoAnalysis]
    /\ pc' = "returned"
    /\ UNCHANGED <<ui_vars, kb_vars, world_classes, module_vars,
                   resolver_vars, query_vars, step_vars, plan, step_no,
                   results, final_analysis, last_step, executed, kb_calls,
                   synth_calls>>

NextPlanner ==
    \/ PlanQuery
    \/ ExecuteSinglePlan
    \/ StartMultiStep
    \/ ExecuteFunctionStep
    \/ SynthesizeStep
    \/ SkipStep
    \/ TestScalarStep
    \/ CompileResponse
    \/ ReturnInvalidPlan

SpecPlanner == InitPlanner /\ [][NextPlanner]_vars

(***************************************************************************)
(* planner.py: is_complex_query, call_local_llm and the parsing of the     *)
(* reply in run_natural_language_query                                     *)
(*                                                                         *)
(* The query text is a sequence of character codes.  The reply of the      *)
(* reasoning service is a sequence of pieces of text: a code-fence marker, *)
(* the word json, white space, the text of a JSON value, any other text.   *)
(***************************************************************************)
\* the list complex_indicators, in the order of the source: compare,
\* analyze, structure, complete, comprehensive, differences, similarities,
\* relationship between, all about, overview of, breakdown, in detail,
\* thorough, full analysis
complex_indicators ==
    <<<<99, 111, 109, 112, 97, 114, 101>>,
      <<97, 110, 97, 108, 121, 122, 101>>,
      <<115, 116, 114, 117, 99, 116, 117, 114, 101>>,
      <<99, 111, 109, 112, 108, 101, 116, 101>>,
      <<99, 111, 109, 112, 114, 101, 104, 101, 110, 115, 105, 118, 101>>,
      <<100, 105, 102, 102, 101, 114, 101, 110, 99, 101, 115>>,
      <<115, 105, 109, 105, 108, 97, 114, 105, 116, 105, 101, 115>>,
      <<114, 101, 108, 97, 116, 105, 111, 110, 115, 104, 105, 112, 32, 98,
        101, 116, 119, 101, 101, 110>>,
      <<97, 108, 108, 32, 97, 98, 111, 117, 116>>,
      <<111, 118, 101, 114, 118, 105, 101, 119, 32, 111, 102>>,
      <<98, 114, 101, 97, 107, 100, 111, 119, 110>>,
      <<105, 110, 32, 100, 101, 116, 97, 105, 108>>,
      <<116, 104, 111, 114, 111, 117, 103, 104>>,
      <<102, 117, 108, 108, 32, 97, 110, 97, 108, 121, 115, 105, 115>>>>

\* the indicators looked for in the text as typed
is_complex_query_cased(text) ==
    \E i \in 1..Len(complex_indicators) :
        IsSubstring(complex_indicators[i], text)

\* any(indicator in user_input.lower() for indicator in complex_indicators)
is_complex_query(text) ==
    \E i \in 1..Len(complex_indicators) :
        IsSubstring(complex_indicators[i], lower(text))

\* system_prompt of call_local_llm
system_prompt(multi_step) ==
    IF multi_step THEN "MULTI_STEP_TOOLS_DESCRIPTION"
    ELSE "SIMPLE_TOOLS_DESCRIPTION"

\* the pieces a reply is made of
\* three backquotes
FENCE == "fence"
JSON_WORD == "json"
WHITESPACE == " "
JSON_VALUE == "{...}"
OTHER_TEXT == "text"

\* return f"LLM error: {e}"
LLM_ERROR == <<"LLM error">>

\* raw_plan.replace(<fence>json, "")
RECURSIVE remove_json_fences(_)
remove_json_fences(raw) ==
    IF raw = <<>> THEN <<>>
    ELSE IF Len(raw) >= 2 /\ raw[1] = FENCE /\ raw[2] = JSON_WORD
    THEN remove_json_fences(SubSeq(raw, 3, Len(raw)))
    ELSE <<raw[1]>> \o remove_json_fences(Tail(raw))

\* .replace(<fence>, "")
IsNotFence(piece) == piece # FENCE
remove_fences(raw) == SelectSeq(raw, IsNotFence)

\* .strip()
RECURSIVE strip(_)
strip(raw) ==
    IF raw = <<>> THEN <<>>
    ELSE IF raw[1] = WHITESPACE THEN strip(Tail(raw))
    ELSE IF raw[Len(raw)] = WHITESPACE
    THEN strip(SubSeq(raw, 1, Len(raw) - 1))
    ELSE raw

\* the reply is parsed as it came
clean_up_json_formatting_skipped(raw) == raw

\* if <fence> in raw_plan:
\*     raw_plan = raw_plan.replace(...).replace(...).strip()
clean_up_json_formatting(raw) ==
    IF InList(FENCE, raw)
    THEN strip(remove_fences(remove_json_fences(raw)))
    ELSE raw

\* json.loads(raw_plan) succeeds: one JSON value, white space around it
\* allowed
json_loads_succeeds(raw) == strip(raw) = <<JSON_VALUE>>

\* f"Failed to parse LLM output as JSON:\n{raw_plan}"
FAILED_TO_PARSE == "Failed to parse LLM output as JSON:"
parse_failure(raw) ==
    [kind |-> "parse_failure", individual |-> <<>>, analysis |-> NoAnalysis,
     text |-> <<FAILED_TO_PARSE>> \o raw]

\* the query texts: up to MaxWords of these pieces, one after the other:
\* "Compare", "overview", " of", "analyze", "what is"
QueryPieces ==
    {<<67, 111, 109, 112, 97, 114, 101>>,
     <<111, 118, 101, 114, 118, 105, 101, 119>>,
     <<32, 111, 102>>,
     <<97, 110, 97, 108, 121, 122, 101>>,
     <<119, 104, 97, 116, 32, 105, 115>>}

RECURSIVE Concatenated(_)
Concatenated(pieces) ==
    IF pieces = <<>> THEN <<>> ELSE pieces[1] \o Concatenated(Tail(pieces))

Queries == {Concatenated(q) : q \in SeqsUpTo(QueryPieces, MaxWords)}

\* what the reasoning service may send
ReplyPieces == {FENCE, JSON_WORD, WHITESPACE, JSON_VALUE, OTHER_TEXT}
ServiceReplies == SeqsUpTo(ReplyPieces, MaxReplyLen)

\* the plans a reply that parses may stand for
QueryPlans ==
    {[kind |-> "object",
      steps |-> <<FunctionStep("get_superclasses", <<<<97, 98>>>>)>>],
     [kind |-> "list",
      steps |-> <<FunctionStep("get_superclasses", <<<<97, 98>>>>),
                  AnalysisStep, OtherStep>>],
     [kind |-> "list",
      steps |-> <<FunctionStep("get_superclasses", <<<<97, 98>>>>),
                  ScalarStep>>],
     InvalidPlan}

InitQuery ==
    /\ world_classes \in PlannerWorlds
    /\ input_name = <<>>
    /\ max_suggestions = DEFAULT_MAX_SUGGESTIONS
    /\ sug_result = PendingSuggestions
    /\ fuzzy_result = Pending
    /\ ModuleVarsFor(world_classes)
    /\ QueryIdle
    /\ PlannerIdle
    /\ StepIdle
    /\ KbIdle
    /\ UiIdle

\* run_natural_language_query(user_input):
\* use_multi_step = is_complex_query(user_input)
ClassifyQuery ==
    /\ pc = "idle"
    /\ user_input' \in Queries
    /\ use_multi_step' = is_complex_query(user_input')
    /\ pc' = "classified"
    /\ UNCHANGED <<ui_vars, kb_vars, world_classes, module_vars,
                   resolver_vars, raw_plan, llm_calls, plan, step_no, results,
                   final_analysis, response, last_step, executed, kb_calls,
                   synth_calls, step_vars>>

\* what is recorded of one call of call_local_llm
LlmCall(prompt, multi_step, reply) ==
    [prompt |-> prompt, system_prompt |-> system_prompt(multi_step),
     reply |-> reply]

\* raw_plan = call_local_llm(user_input, use_multi_step=use_multi_step):
\* the service answers, or the request fails and the error text is returned
CallLocalLlm ==
    /\ pc = "classified"
    /\ \/ raw_plan' \in ServiceReplies
       \/ raw_plan' = LLM_ERROR
    /\ llm_calls' = Append(llm_calls,
                           LlmCall(user_input, use_multi_step, raw_plan'))
    /\ pc' = "planned"
    /\ UNCHANGED <<ui_vars, kb_vars, world_classes, module_vars,
                   resolver_vars, user_input, use_multi_step, plan, step_no,
                   results, final_analysis, response, last_step, executed,
                   kb_calls, synth_calls, step_vars>>

\* the clean-up of raw_plan, then try: plan = json.loads(raw_plan)
\* except json.JSONDecodeError: return the parse failure
ParsePlan ==
    /\ pc = "planned"
    /\ raw_plan' = clean_up_json_formatting(raw_plan)
    /\ IF json_loads_succeeds(raw_plan')
       THEN /\ plan' \in QueryPlans
            /\ pc' = "parsed"
            /\ response' = response
       ELSE /\ plan' = plan
            /\ pc' = "returned"
            /\ response' = parse_failure(raw_plan')
    /\ UNCHANGED <<ui_vars, kb_vars, world_classes, module_vars,
                   resolver_vars, user_input, use_multi_step, llm_calls,
                   step_no, results, final_analysis, last_step, executed,
                   kb_calls, synth_calls, step_vars>>

NextQuery ==
    \/ ClassifyQuery
    \/ CallLocalLlm
    \/ ParsePlan
    \/ ExecuteSinglePlan
    \/ StartMultiStep
    \/ ExecuteFunctionStep
    \/ SynthesizeStep
    \/ SkipStep
    \/ TestScalarStep
    \/ CompileResponse
    \/ ReturnInvalidPlan

SpecQuery == InitQuery /\ [][NextQuery]_vars

(***************************************************************************)
(* One call of execute_single_function, statement by statement, in a       *)
(* process where another session of the web interface reloads the          *)
(* knowledge base (fibo_web_ui.py: every session calls load_fibo_modules   *)
(* on the globals of the one module tools/ontology_tools.py)               *)
(***************************************************************************)
\* the keys of MODULE_SETS
MODULE_SETS == {"core", "comprehensive", "banking", "securities"}

\* what the files of a module set may hold: nothing that loads, the class
\* Abca, or the classes Ab and Abca
SessionWorlds == PlannerWorlds \cup {{<<65, 98, 99, 97>>}}

\* the operations the steps of the sessions ask for
SessionFunctions == {"get_superclasses", "explain_class"}

InitSession ==
    /\ world_classes \in SessionWorlds
    /\ input_name = <<>>
    /\ max_suggestions = DEFAULT_MAX_SUGGESTIONS
    /\ sug_result = PendingSuggestions
    /\ fuzzy_result = Pending
    /\ ModuleVarsFor(world_classes)
    /\ QueryIdle
    /\ PlannerIdle
    /\ StepIdle
    /\ KbIdle
    /\ UiIdle

\* the names of a list of candidates
NamesOf(candidates) == {candidates[i] : i \in 1..Len(candidates)}

\* the call under way, nothing returned yet
RunningStep(call) == [NoStep EXCEPT !.call = call]

\* execute_single_function(func_call) for a single-class function:
\* original_name = args[0]
BeginStep ==
    /\ step_pc \in {"idle", "returned"}
    /\ \E f \in SessionFunctions, a \in PlanNames :
          /\ last_step' = RunningStep(FunctionStep(f, <<a>>))
          /\ original_name' = a
    /\ resolved' = Pending
    /\ resolved_against' = <<>>
    /\ step_output' = NoResult.output
    /\ step_pc' = "resolving"
    /\ UNCHANGED <<ui_vars, kb_vars, world_classes, module_vars,
                   resolver_vars, query_vars, plan, pc, step_no, results,
                   final_analysis, response, executed, kb_calls, synth_calls>>

\* resolved = resolve_class_name_fuzzy(original_name), which reads the
\* classes of owlready2.default_world once, through get_class_candidates
ResolveName ==
    /\ step_pc = "resolving"
    /\ resolved_against' = get_class_candidates(world_classes)
    /\ resolved' = resolve_class_name_fuzzy(world_classes, original_name)
    /\ step_pc' = "resolved"
    /\ UNCHANGED <<ui_vars, kb_vars, world_classes, module_vars,
                   resolver_vars, query_vars, planner_vars, original_name,
                   step_output>>

\* if not resolved: suggestion_msg = format_suggestions_message(
\* original_name), which reads the classes of owlready2.default_world again;
\* return the not-found message
ReturnClassNotFound ==
    /\ step_pc = "resolved"
    /\ Unresolved(resolved)
    /\ step_output' = ClassNotFound(world_classes, last_step.call.function,
                                    original_name).result.output
    /\ last_step' = [last_step EXCEPT
                        !.result.function = last_step.call.function,
                        !.result.output = step_output']
    /\ step_pc' = "returned"
    /\ UNCHANGED <<ui_vars, kb_vars, world_classes, module_vars,
                   resolver_vars, query_vars, plan, pc, step_no, results,
                   final_analysis, response, executed, kb_calls, synth_calls,
                   original_name, resolved, resolved_against>>

\* args[0] = resolved, then the function is executed on the resolved name
SubstituteAndDispatch ==
    /\ step_pc = "resolved"
    /\ ~Unresolved(resolved)
    /\ step_output' = Dispatch(last_step.call.function,
                               <<resolved>>).result.output
    /\ last_step' = [last_step EXCEPT
                        !.call.arguments = <<resolved>>,
                        !.result.function = last_step.call.function,
                        !.result.output = step_output',
                        !.kb = Dispatch(last_step.call.function,
                                        <<resolved>>).kb]
    /\ step_pc' = "returned"
    /\ UNCHANGED <<ui_vars, kb_vars, world_classes, module_vars,
                   resolver_vars, query_vars, plan, pc, step_no, results,
                   final_analysis, response, executed, kb_calls, synth_calls,
                   original_name, resolved, resolved_against>>

\* load_fibo_modules(module_set_name) in another session: world = World(),
\* CURRENT_MODULE_SET = module_set_name, MODULE_FILES = the modules of it
ChooseModuleSet ==
    /\ load_pc = "idle"
    /\ CURRENT_MODULE_SET' \in MODULE_SETS
    /\ MODULE_FILES' = MODULES(CURRENT_MODULE_SET')
    /\ fresh_world' = {}
    /\ world_object' = new_world({default_world, onto_world})
    /\ load_pc' = "chosen"
    /\ UNCHANGED <<ui_vars, kb_vars, world_classes, onto, default_world,
                   onto_world, module_call, module_result, resolver_vars,
                   query_vars, planner_vars, step_vars>>

\* the loop over MODULE_FILES: the files that exist are loaded into world,
\* and onto is set to the first ontology that loads
LoadModuleFiles ==
    /\ load_pc = "chosen"
    /\ fresh_world' \in SessionWorlds
    /\ onto' = IF fresh_world' = {} THEN onto ELSE "ontology"
    /\ onto_world' = IF fresh_world' = {} THEN onto_world
                   ELSE world_object
    /\ load_pc' = "loaded"
    /\ UNCHANGED <<ui_vars, kb_vars, world_classes, CURRENT_MODULE_SET,
                   MODULE_FILES, world_object, default_world, module_call,
                   module_result, resolver_vars, query_vars, planner_vars,
                   step_vars>>

\* owlready2.default_world = world
SwapDefaultWorld ==
    /\ load_pc = "loaded"
    /\ world_classes' = fresh_world
    /\ default_world' = world_object
    /\ load_pc' = "idle"
    /\ UNCHANGED <<ui_vars, kb_vars, onto, CURRENT_MODULE_SET, MODULE_FILES,
                   fresh_world, world_object, onto_world, module_call,
                   module_result, resolver_vars, query_vars, planner_vars,
                   step_vars>>

NextSession ==
    \/ BeginStep
    \/ ResolveName
    \/ ReturnClassNotFound
    \/ SubstituteAndDispatch
    \/ ChooseModuleSet
    \/ LoadModuleFiles
    \/ SwapDefaultWorld

SpecSession == InitSession /\ [][NextSession]_vars

(***************************************************************************)
(* The module-set functions, called one after the other in one process,    *)
(* from its start: load_fibo_modules, switch_module_set and                *)
(* switch_fibo_module_set                                                  *)
(***************************************************************************)
\* the names they are called with: the keys of MODULE_SETS and a name that
\* is no key
ModuleSetNames == MODULE_SETS \cup {"derivatives"}

\* the globals of tools/ontology_tools.py and of owlready2 that they read
\* and assign
Globals ==
    [onto |-> onto, onto_world |-> onto_world,
     CURRENT_MODULE_SET |-> CURRENT_MODULE_SET,
     MODULE_FILES |-> MODULE_FILES, default_world |-> default_world,
     classes |-> world_classes]

\* the text load_fibo_modules returns after loading; with loaded_count 0
\* every module is in failed_modules
load_result(loaded) ==
    IF loaded = {} THEN <<"successfully_loaded", "failed_to_load">>
    ELSE <<"successfully_loaded">>

\* the globals after the files of module_set_name were loaded into the new
\* world w: onto is assigned only when a file loads
loaded_into(g, module_set_name, loaded, w) ==
    [onto |-> IF loaded = {} THEN g.onto ELSE "ontology",
     onto_world |-> IF loaded = {} THEN g.onto_world ELSE w,
     CURRENT_MODULE_SET |-> module_set_name,
     MODULE_FILES |-> MODULES(module_set_name),
     default_world |-> w,
     classes |-> loaded]

\* load_fibo_modules that assigns the globals before it tests the name
load_fibo_modules_unchecked(g, module_set_name, loaded) ==
    IF module_set_name \notin MODULE_SETS
    THEN [globals |-> [g EXCEPT !.CURRENT_MODULE_SET = module_set_name],
          text |-> <<"invalid_module_set">>]
    ELSE [globals |-> loaded_into(g, module_set_name, loaded,
                          new_world({g.default_world, g.onto_world})),
          text |-> load_result(loaded)]

\* load_fibo_modules(module_set_name), the files that load holding the
\* classes loaded
load_fibo_modules(g, module_set_name, loaded) ==
    IF module_set_name \notin MODULE_SETS
    THEN [globals |-> g, text |-> <<"invalid_module_set">>]
    ELSE [globals |-> loaded_into(g, module_set_name, loaded,
                          new_world({g.default_world, g.onto_world})),
          text |-> load_result(loaded)]

\* switch_module_set(module_set_name)
switch_module_set(g, module_set_name, loaded) ==
    IF module_set_name = g.CURRENT_MODULE_SET
    THEN [globals |-> g, text |-> <<"already_using">>]
    ELSE [globals |->
              load_fibo_modules(g, module_set_name, loaded).globals,
          text |-> <<"switched_to">> \o
              load_fibo_modules(g, module_set_name, loaded).text]

\* the dictionary switch_fibo_module_set returns after switch_module_set
\* and get_current_module_info
switched(after) ==
    [globals |-> after.globals,
     result |-> [kind |-> "dict", success |-> TRUE, message |-> after.text,
                 current_info |-> after.globals.CURRENT_MODULE_SET,
                 stats |-> get_ontology_stats(after.globals.classes)]]

\* switch_fibo_module_set(new_module_set)
switch_fibo_module_set(g, new_module_set, loaded) ==
    IF new_module_set \notin MODULE_SETS
    THEN [globals |-> g,
          result |-> [kind |-> "dict", success |-> FALSE,
                      message |-> <<"invalid_module_set">>]]
    ELSE switched(switch_module_set(g, new_module_set, loaded))

\* a text returned by load_fibo_modules or switch_module_set
Text(returned) == [kind |-> "text", text |-> returned.text]

\* the globals take the values g
Assign(g) ==
    /\ onto' = g.onto
    /\ onto_world' = g.onto_world
    /\ CURRENT_MODULE_SET' = g.CURRENT_MODULE_SET
    /\ MODULE_FILES' = g.MODULE_FILES
    /\ default_world' = g.default_world
    /\ world_classes' = g.classes

InitModules ==
    /\ world_classes = {}
    /\ input_name = <<>>
    /\ max_suggestions = DEFAULT_MAX_SUGGESTIONS
    /\ sug_result = PendingSuggestions
    /\ fuzzy_result = Pending
    /\ ModuleVarsFor(world_classes)
    /\ QueryIdle
    /\ PlannerIdle
    /\ StepIdle
    /\ KbIdle
    /\ UiIdle

CallLoadFiboModules ==
    /\ \E name \in ModuleSetNames, loaded \in SessionWorlds :
          /\ module_call' = [function |-> "load_fibo_modules",
                             name |-> name]
          /\ Assign(load_fibo_modules(Globals, name, loaded).globals)
          /\ module_result' = Text(load_fibo_modules(Globals, name, loaded))
    /\ UNCHANGED <<ui_vars, kb_vars, load_pc, fresh_world, world_object,
                   resolver_vars, query_vars, planner_vars, step_vars>>

CallSwitchModuleSet ==
    /\ \E name \in ModuleSetNames, loaded \in SessionWorlds :
          /\ module_call' = [function |-> "switch_module_set",
                             name |-> name]
          /\ Assign(switch_module_set(Globals, name, loaded).globals)
          /\ module_result' = Text(switch_module_set(Globals, name, loaded))
    /\ UNCHANGED <<ui_vars, kb_vars, load_pc, fresh_world, world_object,
                   resolver_vars, query_vars, planner_vars, step_vars>>

CallSwitchFiboModuleSet ==
    /\ \E name \in ModuleSetNames, loaded \in SessionWorlds :
          /\ module_call' = [function |-> "switch_fibo_module_set",
                             name |-> name]
          /\ Assign(switch_fibo_module_set(Globals, name, loaded).globals)
          /\ module_result' =
                 switch_fibo_module_set(Globals, name, loaded).result
    /\ UNCHANGED <<ui_vars, kb_vars, load_pc, fresh_world, world_object,
                   resolver_vars, query_vars, planner_vars, step_vars>>

NextModules ==
    \/ CallLoadFiboModules
    \/ CallSwitchModuleSet
    \/ CallSwitchFiboModuleSet

SpecModules == InitModules /\ [][NextModules]_vars

(***************************************************************************)
(* The web interface: one run of render_main_interface after the other,    *)
(* run_query, run_query_with_module_awareness and, behind it,              *)
(* run_natural_language_query                                              *)
(***************************************************************************)
SPACE == 32

\* query_input.strip(), for texts whose only white space is the space
RECURSIVE strip_text(_)
strip_text(text) ==
    IF text = <<>> THEN <<>>
    ELSE IF text[1] = SPACE THEN strip_text(Tail(text))
    ELSE IF text[Len(text)] = SPACE
    THEN strip_text(SubSeq(text, 1, Len(text) - 1))
    ELSE text

\* the dictionary module_keywords of run_query_with_module_awareness, in
\* the order of its items
module_keywords ==
    <<\* switch to comprehensive
      [phrase |->
          <<115, 119, 105, 116, 99, 104, 32, 116, 111, 32, 99, 111, 109,
            112, 114, 101, 104, 101, 110, 115, 105, 118, 101>>,
       module_name |-> "comprehensive"],
      \* use comprehensive
      [phrase |->
          <<117, 115, 101, 32, 99, 111, 109, 112, 114, 101, 104, 101, 110,
            115, 105, 118, 101>>,
       module_name |-> "comprehensive"],
      \* load comprehensive
      [phrase |->
          <<108, 111, 97, 100, 32, 99, 111, 109, 112, 114, 101, 104, 101,
            110, 115, 105, 118, 101>>,
       module_name |-> "comprehensive"],
      \* switch to banking
      [phrase |->
          <<115, 119, 105, 116, 99, 104, 32, 116, 111, 32, 98, 97, 110, 107,
            105, 110, 103>>,
       module_name |-> "banking"],
      \* use banking
      [phrase |->
          <<117, 115, 101, 32, 98, 97, 110, 107, 105, 110, 103>>,
       module_name |-> "banking"],
      \* load banking
      [phrase |->
          <<108, 111, 97, 100, 32, 98, 97, 110, 107, 105, 110, 103>>,
       module_name |-> "banking"],
      \* switch to securities
      [phrase |->
          <<115, 119, 105, 116, 99, 104, 32, 116, 111, 32, 115, 101, 99,
            117, 114, 105, 116, 105, 101, 115>>,
       module_name |-> "securities"],
      \* use securities
      [phrase |->
          <<117, 115, 101, 32, 115, 101, 99, 117, 114, 105, 116, 105, 101,
            115>>,
       module_name |-> "securities"],
      \* load securities
      [phrase |->
          <<108, 111, 97, 100, 32, 115, 101, 99, 117, 114, 105, 116, 105,
            101, 115>>,
       module_name |-> "securities"],
      \* switch to core
      [phrase |->
          <<115, 119, 105, 116, 99, 104, 32, 116, 111, 32, 99, 111, 114, 101>>,
       module_name |-> "core"],
      \* use core
      [phrase |->
          <<117, 115, 101, 32, 99, 111, 114, 101>>,
       module_name |-> "core"],
      \* load core
      [phrase |->
          <<108, 111, 97, 100, 32, 99, 111, 114, 101>>,
       module_name |-> "core"]>>

\* the phrases of a request for module information
module_info_phrases ==
    <<\* available modules
      <<97, 118, 97, 105, 108, 97, 98, 108, 101, 32, 109, 111, 100, 117,
        108, 101, 115>>,
      \* module sets
      <<109, 111, 100, 117, 108, 101, 32, 115, 101, 116, 115>>,
      \* what modules
      <<119, 104, 97, 116, 32, 109, 111, 100, 117, 108, 101, 115>>,
      \* current module
      <<99, 117, 114, 114, 101, 110, 116, 32, 109, 111, 100, 117, 108, 101>>>>

\* "compare", and the words that make a comparison one of module sets
COMPARE_WORD == <<99, 111, 109, 112, 97, 114, 101>>
comparison_words ==
    <<\* modules
      <<109, 111, 100, 117, 108, 101, 115>>,
      \* sets
      <<115, 101, 116, 115>>>>

\* the loop over module_keywords.items(): the position of the first item
\* whose phrase is in user_lower, 0 when the loop ends without one
first_keyword(user_lower) ==
    IF \E i \in 1..Len(module_keywords) :
           IsSubstring(module_keywords[i].phrase, user_lower)
    THEN CHOOSE i \in 1..Len(module_keywords) :
             /\ IsSubstring(module_keywords[i].phrase, user_lower)
             /\ \A j \in 1..(i - 1) :
                    ~IsSubstring(module_keywords[j].phrase, user_lower)
    ELSE 0

\* the loop run on the text as typed
switch_request_cased(text) == first_keyword(text)

\* user_lower = user_input.lower(), then the loop
switch_request(text) == first_keyword(lower(text))

\* any(phrase in user_lower for phrase in [...])
information_request(text) ==
    \E i \in 1..Len(module_info_phrases) :
        IsSubstring(module_info_phrases[i], lower(text))

\* 'compare' in user_lower and any(word in user_lower for word in [...])
comparison_request(text) ==
    /\ IsSubstring(COMPARE_WORD, lower(text))
    /\ \E i \in 1..Len(comparison_words) :
           IsSubstring(comparison_words[i], lower(text))

\* the branch run_query_with_module_awareness takes
branch(text, current_set) ==
    IF switch_request(text) # 0 THEN "switch"
    ELSE IF information_request(text) THEN "information"
    ELSE IF comparison_request(text) /\ current_set # "comprehensive"
    THEN "comparison"
    ELSE "query"

\* the texts typed into the input box
UiQueries ==
    {\* "Use Core"
     <<85, 115, 101, 32, 67, 111, 114, 101>>,
     \* "switch to core or use banking"
     <<115, 119, 105, 116, 99, 104, 32, 116, 111, 32, 99, 111, 114, 101, 32,
       111, 114, 32, 117, 115, 101, 32, 98, 97, 110, 107, 105, 110, 103>>,
     \* "compare and use securities"
     <<99, 111, 109, 112, 97, 114, 101, 32, 97, 110, 100, 32, 117, 115, 101,
       32, 115, 101, 99, 117, 114, 105, 116, 105, 101, 115>>,
     \* "what is equity"
     <<119, 104, 97, 116, 32, 105, 115, 32, 101, 113, 117, 105, 116, 121>>,
     \* "compare equity and debt"
     <<99, 111, 109, 112, 97, 114, 101, 32, 101, 113, 117, 105, 116, 121,
       32, 97, 110, 100, 32, 100, 101, 98, 116>>,
     \* "Current Module"
     <<67, 117, 114, 114, 101, 110, 116, 32, 77, 111, 100, 117, 108, 101>>,
     \* "compare modules"
     <<99, 111, 109, 112, 97, 114, 101, 32, 109, 111, 100, 117, 108, 101,
       115>>,
     \* "  "
     <<32, 32>>}

\* what may be pressed before a run of the script: the Query button, the
\* Multi-Step button, or neither (the text was changed)
Buttons == {"query_btn", "multistep_btn", "none"}

\* the flags after the button handlers of render_main_interface
force_after(button) == force_multistep \/ button = "multistep_btn"
run_after(button) == run_query \/ button = "multistep_btn"

\* should_run
should_run(button) ==
    button = "query_btn" \/ run_after(button) \/ force_after(button)

\* query_type of run_query
announced(text, forced) ==
    IF is_complex_query(text) \/ forced THEN "Multi-step reasoning"
    ELSE "Simple query"

InitInterface ==
    /\ world_classes \in {{}, {<<65, 98>>, <<65, 98, 99, 97>>}}
    /\ input_name = <<>>
    /\ max_suggestions = DEFAULT_MAX_SUGGESTIONS
    /\ sug_result = PendingSuggestions
    /\ fuzzy_result = Pending
    /\ ModuleVarsFor(world_classes)
    /\ QueryIdle
    /\ PlannerIdle
    /\ StepIdle
    /\ KbIdle
    /\ UiIdle

\* one run of render_main_interface up to the call of run_query, and the
\* first statements of run_query: the text of the input box is read, the
\* button handlers set the flags, and if should_run and the text is not
\* blank the query type is announced; nothing of the query has been
\* processed yet
RunScript ==
    /\ ui_pc \in {"idle", "done"}
    /\ \E text \in UiQueries, button \in Buttons :
          /\ query_input' = text
          /\ force_multistep' = force_after(button)
          /\ run_query' = run_after(button)
          /\ IF should_run(button) /\ strip_text(text) # <<>>
             THEN /\ query' = strip_text(text)
                  /\ query_type' = announced(strip_text(text),
                                             force_after(button))
                  /\ ui_pc' = "announced"
             ELSE /\ query' = <<>>
                  /\ query_type' = ""
                  /\ ui_pc' = "idle"
    /\ last_result' = NoLastResult
    /\ user_input' = <<>>
    /\ use_multi_step' = FALSE
    /\ raw_plan' = <<>>
    /\ llm_calls' = <<>>
    /\ plan' = NoPlan
    /\ pc' = "idle"
    /\ step_no' = 0
    /\ results' = <<>>
    /\ final_analysis' = NoAnalysis
    /\ response' = NoResponse
    /\ last_step' = NoStep
    /\ executed' = <<>>
    /\ kb_calls' = <<>>
    /\ synth_calls' = <<>>
    /\ UNCHANGED <<kb_vars, world_classes, module_vars, resolver_vars,
                   step_vars>>

\* run_query_with_module_awareness(query) for a module-switch request:
\* result = switch_fibo_module_set(module_name), and the text made of it
\* is returned
SwitchOnRequest ==
    /\ ui_pc = "announced"
    /\ branch(query, CURRENT_MODULE_SET) = "switch"
    /\ \E loaded \in SessionWorlds :
          /\ module_call' =
                 [function |-> "switch_fibo_module_set",
                  name |-> module_keywords[switch_request(query)].module_name]
          /\ module_result' =
                 switch_fibo_module_set(Globals, module_call'.name,
                                        loaded).result
          /\ Assign(switch_fibo_module_set(Globals, module_call'.name,
                                           loaded).globals)
    /\ last_result' = [kind |-> "switch_result", of |-> module_result']
    /\ ui_pc' = "handled"
    /\ UNCHANGED <<kb_vars, load_pc, fresh_world, world_object,
                   resolver_vars, query_vars, planner_vars, step_vars,
                   query_input, run_query, force_multistep, query,
                   query_type>>

\* ... for a request for module information, or for a comparison of the
\* current set with the set comprehensive: the text is compiled from
\* MODULE_SETS and get_ontology_stats and returned
AnswerModuleRequest ==
    /\ ui_pc = "announced"
    /\ branch(query, CURRENT_MODULE_SET) \in {"information", "comparison"}
    /\ last_result' = [kind |-> branch(query, CURRENT_MODULE_SET),
                       of |-> CURRENT_MODULE_SET]
    /\ ui_pc' = "handled"
    /\ UNCHANGED <<kb_vars, world_classes, module_vars, resolver_vars,
                   query_vars, planner_vars, step_vars, query_input,
                   run_query, force_multistep, query, query_type>>

\* ... for any other text: return run_natural_language_query(user_input),
\* which begins with use_multi_step = is_complex_query(user_input)
PassToPlanner ==
    /\ ui_pc = "announced"
    /\ branch(query, CURRENT_MODULE_SET) = "query"
    /\ user_input' = query
    /\ use_multi_step' = is_complex_query(query)
    /\ pc' = "classified"
    /\ ui_pc' = "planning"
    /\ UNCHANGED <<kb_vars, world_classes, module_vars, resolver_vars,
                   raw_plan, llm_calls, plan, step_no, results,
                   final_analysis, response, last_step, executed, kb_calls,
                   synth_calls, step_vars, query_input, run_query,
                   force_multistep, query, query_type, last_result>>

\* run_query after run_natural_language_query has returned or raised: the
\* result or the error is displayed
DisplayResult ==
    /\ ui_pc = "planning"
    /\ pc \in {"returned", "raised"}
    /\ last_result' = [kind |-> IF pc = "returned" THEN "response"
                                ELSE "query_error",
                       of |-> response]
    /\ ui_pc' = "handled"
    /\ UNCHANGED <<kb_vars, world_classes, module_vars, resolver_vars,
                   query_vars, planner_vars, step_vars, query_input,
                   run_query, force_multistep, query, query_type>>

\* render_main_interface after run_query: the run flags are cleared
ClearRunFlags ==
    /\ ui_pc = "handled"
    /\ run_query' = FALSE
    /\ force_multistep' = FALSE
    /\ ui_pc' = "done"
    /\ UNCHANGED <<kb_vars, world_classes, module_vars, resolver_vars,
                   query_vars, planner_vars, step_vars, query_input, query,
                   query_type, last_result>>

NextInterface ==
    \/ RunScript
    \/ SwitchOnRequest
    \/ AnswerModuleRequest
    \/ PassToPlanner
    \/ CallLocalLlm
    \/ ParsePlan
    \/ ExecuteSinglePlan
    \/ StartMultiStep
    \/ ExecuteFunctionStep
    \/ SynthesizeStep
    \/ SkipStep
    \/ TestScalarStep
    \/ CompileResponse
    \/ ReturnInvalidPlan
    \/ DisplayResult
    \/ ClearRunFlags

SpecInterface == InitInterface /\ [][NextInterface]_vars

(***************************************************************************)
(* tools/ontology_tools.py: the functions that walk the classes of the     *)
(* knowledge base. A class is [name, label, comment, is_a]: its name, its  *)
(* labels, its comments, and the names of the classes in its is_a list.    *)
(***************************************************************************)
\* search_classes_by_keyword lists the first 15 matches
SEARCH_LIST_LIMIT == 15

\* keyword_lower in str(text).lower() for some text of the list
AnyContains(keyword_lower, texts) ==
    \E i \in 1..Len(texts) : IsSubstring(keyword_lower, lower(texts[i]))

Match(cls, match_type) == <<[name |-> cls.name, match_type |-> match_type]>>

\* the body of the loop over the classes: a match by name ends the round
\* (continue); the loop over the labels ends at the first match (break) and
\* the loop over the comments follows it in every case
class_matches(cls, keyword_lower) ==
    IF IsSubstring(keyword_lower, lower(cls.name)) THEN Match(cls, "name")
    ELSE (IF AnyContains(keyword_lower, cls.label)
          THEN Match(cls, "label") ELSE <<>>)
           \o (IF AnyContains(keyword_lower, cls.comment)
               THEN Match(cls, "comment") ELSE <<>>)

\* the list matches after the loop over the classes
RECURSIVE keyword_matches(_, _)
keyword_matches(classes, keyword_lower) ==
    IF classes = <<>> THEN <<>>
    ELSE class_matches(Head(classes), keyword_lower)
           \o keyword_matches(Tail(classes), keyword_lower)

\* "No classes found containing ...", or "Found {len(matches)} classes"
\* followed by matches[:15]
search_output(matches) ==
    IF matches = <<>>
    THEN [kind |-> "no_classes_found", count |-> 0, listed |-> <<>>]
    ELSE [kind |-> "found", count |-> Len(matches),
          listed |-> Slice(matches, SEARCH_LIST_LIMIT)]

\* search_classes_by_keyword(keyword) over the classes of the world, with
\* their labels and comments
search_by_keyword(classes, keyword) ==
    search_output(keyword_matches(classes, lower(keyword)))

\* a class without superclass
Class(name, label, comment) ==
    [name |-> name, label |-> label, comment |-> comment, is_a |-> {}]

\* texts of labels and comments: a, c
AnnotationTexts == {<<97>>, <<99>>}

\* the labels, or the comments, of a class: none, one, or a twice
Annotations == SeqsUpTo(AnnotationTexts, 1) \cup {<<<<97>>, <<97>>>>}

\* the classes Ab and c with their annotations
AnnotatedClasses ==
    {Class(n, l, c) :
        n \in {<<65, 98>>, <<99>>}, l \in Annotations, c \in Annotations}

\* knowledge bases of one class, or of two classes of different names
AnnotatedOntologies ==
    {q \in SeqsUpTo(AnnotatedClasses, 2) :
        q # <<>> /\ (Len(q) = 2 => q[1].name # q[2].name)}

\* the keywords searched for: A, c, x
Keywords == {<<65>>, <<99>>, <<120>>}

\* an entry of an is_a list that has no name (a restriction)
RESTRICTION == <<0>>

\* hasattr(parent, 'name')
HasName(entry) == entry # RESTRICTION

\* the class of a name, as onto.search_one finds it
ClassOf(classes, name) ==
    classes[CHOOSE i \in 1..Len(classes) : classes[i].name = name]

\* cls.subclasses(): the classes that have cls in their is_a list
subclasses(classes, name) ==
    {classes[i].name :
        i \in {k \in 1..Len(classes) : name \in classes[k].is_a}}

\* the walk up the superclasses only
unvisited_parents(classes, name, seen) ==
    SortedNames({p \in ClassOf(classes, name).is_a :
                    HasName(p) /\ p \notin seen})

\* the named parents, then the children, that are not in visited
unvisited_neighbours(classes, name, seen) ==
    SortedNames({p \in ClassOf(classes, name).is_a :
                    HasName(p) /\ p \notin seen})
      \o SortedNames(subclasses(classes, name) \ seen)

\* queue.append((neighbour, depth + 1)) for each of them
Enqueued(names, depth) == [i \in 1..Len(names) |-> <<names[i], depth>>]

\* the names appended to related[depth]
RelatedAt(found, depth) ==
    {found[i][2] : i \in {k \in 1..Len(found) : found[k][1] = depth}}

\* "No related concepts found", or for depth in sorted(related.keys()):
\* sorted(set(related[depth]))
related_output(found) ==
    IF found = <<>>
    THEN [kind |-> "no_related_concepts", by_depth |-> <<>>]
    ELSE [kind |-> "related_concepts",
          by_depth |-> [d \in {found[i][1] : i \in 1..Len(found)} |->
                           SortedNames(RelatedAt(found, d))]]

\* next_level: the named parents of the classes of current_level, each once
next_level(classes, current) ==
    SortedNames({p \in UNION {ClassOf(classes, current[i]).is_a :
                                 i \in 1..Len(current)} : HasName(p)})

\* the classes of a set and their named parents
with_parents(classes, reached) ==
    reached \cup {p \in UNION {ClassOf(classes, c).is_a : c \in reached} :
                     HasName(p)}

\* cls.ancestors(): the class and all it reaches over named parents, which
\* are found in as many rounds as there are classes
RECURSIVE ancestors(_, _, _)
ancestors(classes, name, rounds) ==
    IF rounds = 0 THEN {name}
    ELSE with_parents(classes, ancestors(classes, name, rounds - 1))

\* the levels found, and "Total ancestors: {len(set(ancestor_names))}"
superclasses_output(classes, name, found_levels) ==
    [kind |-> "inheritance_chain", levels |-> found_levels,
     total_ancestors |->
         Cardinality(ancestors(classes, name, Len(classes)))]

\* the classes A, B, C, each with any of the others and a restriction in
\* its is_a list: trees, diamonds, cycles, classes apart
GraphNames == {<<65>>, <<66>>, <<67>>}
GraphClass(name, is_a) ==
    [name |-> name, label |-> <<>>, comment |-> <<>>, is_a |-> is_a]
GraphOntologies ==
    {<<GraphClass(<<65>>, a), GraphClass(<<66>>, b), GraphClass(<<67>>, c)>> :
        a \in SUBSET {<<66>>, <<67>>, RESTRICTION},
        b \in SUBSET {<<65>>, <<67>>, RESTRICTION},
        c \in SUBSET {<<65>>, <<66>>, RESTRICTION}}

\* a name that no class has: x
UnknownName == <<120>>

\* the names of the classes of a knowledge base
ClassNames(classes) == {classes[i].name : i \in 1..Len(classes)}

InitKnowledgeBase ==
    /\ ontology_classes \in AnnotatedOntologies \cup GraphOntologies
    /\ world_classes = ClassNames(ontology_classes)
    /\ input_name = <<>>
    /\ max_suggestions = DEFAULT_MAX_SUGGESTIONS
    /\ sug_result = PendingSuggestions
    /\ fuzzy_result = Pending
    /\ ModuleVarsFor(world_classes)
    /\ QueryIdle
    /\ PlannerIdle
    /\ StepIdle
    /\ UiIdle
    /\ kb_call = NoCall
    /\ kb_pc = "idle"
    /\ kb_output = NoOutput
    /\ queue = <<>>
    /\ visited = {}
    /\ related = <<>>
    /\ current_level = <<>>
    /\ level = 0
    /\ levels = <<>>

\* search_classes_by_keyword(keyword)
SearchClassesByKeyword ==
    /\ kb_pc = "idle"
    /\ \E keyword \in Keywords :
          /\ kb_call' = [function |-> "search_classes_by_keyword",
                         name |-> keyword, max_depth |-> 0]
          /\ kb_output' = search_by_keyword(ontology_classes, keyword)
    /\ kb_pc' = "returned"
    /\ UNCHANGED <<ui_vars, world_classes, module_vars, resolver_vars,
                   query_vars, planner_vars, step_vars, ontology_classes,
                   queue, visited, related, current_level, level, levels>>

\* get_related_concepts(class_name, max_depth) up to the loop: the class
\* is looked up, and queue = deque([(cls, 0)])
CallGetRelatedConcepts ==
    /\ kb_pc = "idle"
    /\ \E name \in world_classes \cup {UnknownName},
          depth \in -1..MaxDepth :
          /\ kb_call' = [function |-> "get_related_concepts",
                         name |-> name, max_depth |-> depth]
          /\ IF name \in world_classes
             THEN /\ queue' = <<<<name, 0>>>>
                  /\ kb_pc' = "related_loop"
                  /\ kb_output' = kb_output
             ELSE /\ queue' = queue
                  /\ kb_pc' = "returned"
                  /\ kb_output' =
                        ClassNotFound(world_classes, "get_related_concepts",
                                      name).result.output
    /\ visited' = {}
    /\ related' = <<>>
    /\ UNCHANGED <<ui_vars, world_classes, module_vars, resolver_vars,
                   query_vars, planner_vars, step_vars, ontology_classes,
                   current_level, level, levels>>

\* one round of "while queue": current_cls, depth = queue.popleft()
RelatedLoopStep ==
    /\ kb_pc = "related_loop"
    /\ queue # <<>>
    /\ IF Head(queue)[1] \in visited \/ Head(queue)[2] > kb_call.max_depth
       THEN /\ queue' = Tail(queue)
            /\ UNCHANGED <<visited, related>>
       ELSE /\ visited' = visited \cup {Head(queue)[1]}
            /\ related' = IF Head(queue)[2] > 0
                          THEN Append(related,
                                      <<Head(queue)[2], Head(queue)[1]>>)
                          ELSE related
            /\ queue' = IF Head(queue)[2] < kb_call.max_depth
                        THEN Tail(queue)
                               \o Enqueued(
                                     unvisited_neighbours(ontology_classes,
                                         Head(queue)[1], visited'),
                                     Head(queue)[2] + 1)
                        ELSE Tail(queue)
    /\ UNCHANGED <<ui_vars, world_classes, module_vars, resolver_vars,
                   query_vars, planner_vars, step_vars, ontology_classes,
                   kb_call, kb_pc, kb_output, current_level, level, levels>>

\* the queue is empty: the related concepts are reported by depth
ReturnRelatedConcepts ==
    /\ kb_pc = "related_loop"
    /\ queue = <<>>
    /\ kb_output' = related_output(related)
    /\ kb_pc' = "returned"
    /\ UNCHANGED <<ui_vars, world_classes, module_vars, resolver_vars,
                   query_vars, planner_vars, step_vars, ontology_classes,
                   kb_call, queue, visited, related, current_level, level,
                   levels>>

\* get_all_superclasses(class_name) up to the loop: the class is looked
\* up, current_level = [cls], level = 0
CallGetAllSuperclasses ==
    /\ kb_pc = "idle"
    /\ \E name \in world_classes \cup {UnknownName} :
          /\ kb_call' = [function |-> "get_all_superclasses",
                         name |-> name, max_depth |-> 0]
          /\ IF name \in world_classes
             THEN /\ current_level' = <<name>>
                  /\ kb_pc' = "levels_loop"
                  /\ kb_output' = kb_output
             ELSE /\ current_level' = current_level
                  /\ kb_pc' = "returned"
                  /\ kb_output' =
                        ClassNotFound(world_classes, "get_all_superclasses",
                                      name).result.output
    /\ level' = 0
    /\ levels' = <<>>
    /\ UNCHANGED <<ui_vars, world_classes, module_vars, resolver_vars,
                   query_vars, planner_vars, step_vars, ontology_classes,
                   queue, visited, related>>

\* one round of "while current_level" with parents found: level += 1,
\* levels[level] = the sorted names, current_level = next_level; levels
\* beyond MaxLevel are walked and not recorded
LevelsLoopStep ==
    /\ kb_pc = "levels_loop"
    /\ next_level(ontology_classes, current_level) # <<>>
    /\ current_level' = next_level(ontology_classes, current_level)
    /\ IF level < MaxLevel
       THEN /\ level' = level + 1
            /\ levels' = Append(levels, current_level')
       ELSE UNCHANGED <<level, levels>>
    /\ UNCHANGED <<ui_vars, world_classes, module_vars, resolver_vars,
                   query_vars, planner_vars, step_vars, ontology_classes,
                   kb_call, kb_pc, kb_output, queue, visited, related>>

\* the round that finds no parent: break, and the levels are reported
ReturnAllSuperclasses ==
    /\ kb_pc = "levels_loop"
    /\ next_level(ontology_classes, current_level) = <<>>
    /\ kb_output' = superclasses_output(ontology_classes, kb_call.name,
                                        levels)
    /\ kb_pc' = "returned"
    /\ UNCHANGED <<ui_vars, world_classes, module_vars, resolver_vars,
                   query_vars, planner_vars, step_vars, ontology_classes,
                   kb_call, queue, visited, related, current_level, level,
                   levels>>

NextKnowledgeBase ==
    \/ SearchClassesByKeyword
    \/ CallGetAllSuperclasses
    \/ LevelsLoopStep
    \/ ReturnAllSuperclasses
    \/ CallGetRelatedConcepts
    \/ RelatedLoopStep
    \/ ReturnRelatedConcepts

SpecKnowledgeBase == InitKnowledgeBase /\ [][NextKnowledgeBase]_vars

\* a call that has begun goes on: the rounds of its loop and its return are
\* statements of one running function
SpecKnowledgeBaseFair ==
    /\ SpecKnowledgeBase
    /\ WF_vars(RelatedLoopStep)
    /\ WF_vars(ReturnRelatedConcepts)
    /\ WF_vars(LevelsLoopStep)
    /\ WF_vars(ReturnAllSuperclasses)

(***************************************************************************)
(* Notions the properties are stated in                                    *)
(***************************************************************************)
\* two characters that are the same letter, whatever the case
SameLetter(c, d) ==
    \/ c = d
    \/ c >= 65 /\ c <= 90 /\ d = c + 32
    \/ d >= 65 /\ d <= 90 /\ c = d + 32

\* two names that are equal ignoring case
EqualIgnoringCase(s, t) ==
    /\ Len(s) = Len(t)
    /\ \A i \in 1..Len(s) : SameLetter(s[i], t[i])

\* some class of the world equals the typed name ignoring case
HasCaseInsensitiveEqual ==
    \E c \in world_classes : EqualIgnoringCase(c, input_name)

\* get_class_suggestions has returned (a result, not an exception)
SuggestionsReturned == sug_result.type \notin {"pending", "ValueError"}

\* seq without the later occurrences of its elements
RECURSIVE KeepFirst(_)
KeepFirst(seq) ==
    IF seq = <<>> THEN <<>>
    ELSE LET h == Head(seq)
             differs(x) == x # h
         IN  <<h>> \o KeepFirst(SelectSeq(Tail(seq), differs))

\* the first n elements of seq
FirstN(seq, n) == SubSeq(seq, 1, Min(n, Len(seq)))

\* the four heuristic tiers for the typed name, each in its own order
SubstringTier ==
    substring_matches(get_class_candidates(world_classes), lower(input_name))
NearMatchTier ==
    get_close_matches(input_name, get_class_candidates(world_classes),
                      2 * max_suggestions, <<3, 5>>).value
CharOverlapTier ==
    char_matches(get_class_candidates(world_classes), lower(input_name))
AffixTier ==
    affix_matches(get_class_candidates(world_classes), lower(input_name))

(***************************************************************************)
(* Properties of the resolver                                              *)
(***************************************************************************)
\* C1: against a non-empty candidate set get_class_suggestions returns
\* type "exact" if and only if some candidate equals the input ignoring
\* case; the match is then such a candidate in its stored casing and the
\* suggestion list is empty.
C1_ExactIffCaseInsensitiveEqual ==
    (sug_result.type # "pending" /\ world_classes # {}) =>
        /\ (sug_result.type = "exact") <=> HasCaseInsensitiveEqual
        /\ sug_result.type = "exact" =>
              /\ sug_result.match \in world_classes
              /\ EqualIgnoringCase(sug_result.match, input_name)
              /\ sug_result.suggestions = <<>>

\* an exact match found under another casing while another class would
\* have matched the substring tier
C1_Witness ==
    /\ sug_result.type = "exact"
    /\ sug_result.match # input_name
    /\ \E c \in world_classes \ {sug_result.match} :
          IsSubstringMatch(lower(input_name), c)

\* C2: the suggestion list returned by get_class_suggestions has at most
\* max_suggestions elements and contains no name twice.
C2_SuggestionsBoundedAndDistinct ==
    SuggestionsReturned =>
        /\ Len(sug_result.suggestions) <= max_suggestions
        /\ \A i, j \in 1..Len(sug_result.suggestions) :
              i # j => sug_result.suggestions[i] # sug_result.suggestions[j]

\* a list cut at max_suggestions whose first name matches two tiers
C2_Witness ==
    /\ sug_result.type = "suggestions"
    /\ Len(sug_result.suggestions) = max_suggestions
    /\ \E c \in world_classes :
          /\ ~InList(c, sug_result.suggestions)
          /\ IsSubstringMatch(lower(input_name), c)
    /\ InList(sug_result.suggestions[1], SubstringTier)
    /\ InList(sug_result.suggestions[1], NearMatchTier)

\* both calls made with the same input, get_class_suggestions with its
\* default max_suggestions as resolve_class_name_fuzzy calls it
BothCalled ==
    /\ sug_result.type # "pending"
    /\ fuzzy_result # Pending
    /\ max_suggestions = DEFAULT_MAX_SUGGESTIONS

\* C3 as stated: any name returned by resolve_class_name_fuzzy is an
\* element of the suggestion list get_class_suggestions returns for the
\* same input.
C3_ResolvedNameInSuggestions ==
    (BothCalled /\ fuzzy_result # None) =>
        InList(fuzzy_result, sug_result.suggestions)

\* C3 amended: any name returned by resolve_class_name_fuzzy is either the
\* exact match of get_class_suggestions for the same input or an element
\* of its suggestion list.
C3_ResolvedNameIsMatchOrSuggestion ==
    (BothCalled /\ fuzzy_result # None) =>
        \/ sug_result.type = "exact" /\ fuzzy_result = sug_result.match
        \/ InList(fuzzy_result, sug_result.suggestions)

\* a name resolved from the suggestion list, without an exact match
C3_Witness ==
    /\ BothCalled
    /\ sug_result.type = "suggestions"
    /\ fuzzy_result # None
    /\ fuzzy_result # input_name

\* C4: resolve_class_name_fuzzy returns the exact match when one exists;
\* otherwise the suggestion with the highest similarity ratio to the input
\* if that ratio is at least 0.8, and None when the list is empty or no
\* suggestion reaches 0.8.
C4_ResolveBestAboveCutoff ==
    BothCalled =>
        IF HasCaseInsensitiveEqual
        THEN /\ fuzzy_result = sug_result.match
             /\ fuzzy_result \in world_classes
             /\ EqualIgnoringCase(fuzzy_result, input_name)
        ELSE IF \E i \in 1..Len(sug_result.suggestions) :
                   FracGE(ratio(sug_result.suggestions[i], input_name),
                          <<4, 5>>)
        THEN /\ InList(fuzzy_result, sug_result.suggestions)
             /\ \A i \in 1..Len(sug_result.suggestions) :
                   FracGE(ratio(fuzzy_result, input_name),
                          ratio(sug_result.suggestions[i], input_name))
        ELSE fuzzy_result = None

\* the best suggestion is not the first of the list
C4_Witness ==
    /\ BothCalled
    /\ sug_result.type = "suggestions"
    /\ Len(sug_result.suggestions) >= 2
    /\ fuzzy_result # None
    /\ fuzzy_result # sug_result.suggestions[1]

\* no tier matches the typed name
NoTierMatches ==
    /\ ~HasCaseInsensitiveEqual
    /\ SubstringTier = <<>>
    /\ \A c \in world_classes : ~FracGE(ratio(c, input_name), <<3, 5>>)
    /\ CharOverlapTier = <<>>
    /\ AffixTier = <<>>

\* C5: for every input string, candidate set and max_suggestions value
\* (0 included) get_class_suggestions raises no exception and returns one
\* of the shapes exact, suggestions and none; an input matched by no tier
\* yields the none shape.
C5_NoExceptionThreeShapes ==
    sug_result.type # "pending" =>
        /\ \/ /\ sug_result.type = "exact"
              /\ sug_result.match # None
              /\ sug_result.suggestions = <<>>
           \/ /\ sug_result.type = "suggestions"
              /\ sug_result.match = None
              /\ sug_result.suggestions # <<>>
           \/ /\ sug_result.type = "none"
              /\ sug_result.match = None
              /\ sug_result.suggestions = <<>>
        /\ NoTierMatches => sug_result.type = "none"

\* C6: when no exact match exists, the suggestion list equals the first
\* max_suggestions elements of the concatenation of the substring tier,
\* the near-match tier (ratio >= 0.6, at most 2 x max_suggestions), the
\* character-overlap tier and the prefix/suffix tier, a name already taken
\* from an earlier tier being skipped in the later ones.
C6_TierConcatenation ==
    (SuggestionsReturned /\ ~HasCaseInsensitiveEqual) =>
        sug_result.suggestions =
            FirstN(KeepFirst(SubstringTier \o NearMatchTier
                               \o CharOverlapTier \o AffixTier),
                   max_suggestions)

\* a list whose names come from three different tiers
C6_Witness ==
    /\ sug_result.type = "suggestions"
    /\ Len(sug_result.suggestions) >= 3
    /\ InList(sug_result.suggestions[1], SubstringTier)
    /\ \E i \in 1..Len(sug_result.suggestions) :
          /\ ~InList(sug_result.suggestions[i], SubstringTier)
          /\ InList(sug_result.suggestions[i], NearMatchTier)
    /\ \E i \in 1..Len(sug_result.suggestions) :
          /\ ~InList(sug_result.suggestions[i], SubstringTier)
          /\ ~InList(sug_result.suggestions[i], NearMatchTier)
          /\ InList(sug_result.suggestions[i], CharOverlapTier)

(***************************************************************************)
(* Properties of the plan executor                                         *)
(***************************************************************************)
\* the last executed call, its arguments and what it produced
LastCall == last_step.call
LastArgs == last_step.call.arguments
LastOutput == last_step.result.output

\* the resolver's answer for the k-th argument of the last executed call
ResolvedArg(k) == resolve_class_name_fuzzy(world_classes, LastArgs[k])

\* the last executed call returned the not-found message about name
NotFoundMessageFor(name) ==
    /\ last_step.exc = ""
    /\ last_step.result.function = LastCall.function
    /\ LastOutput.kind = "class_not_found"
    /\ LastOutput.name = name

\* C7: when an operation takes a class-name argument and the resolver
\* returns no name for it, the step's output is the not-found message for
\* the typed name with the suggestions (if any), and the knowledge-base
\* function of the operation is not invoked for that step.
C7_UnresolvedNameShortCircuits ==
    (/\ LastCall.has_function
     /\ LastCall.function \in single_class_functions
     /\ LastArgs # <<>>
     /\ ResolvedArg(1) = None) =>
        /\ NotFoundMessageFor(LastArgs[1])
        /\ LastOutput.message.suggestions =
              get_class_suggestions(world_classes, LastArgs[1],
                                    DEFAULT_MAX_SUGGESTIONS).suggestions
        /\ LastOutput.message.suggestions = <<>>
              <=> LastOutput.message.kind = "no_similar_classes"
        /\ last_step.kb = <<>>

\* an unresolved name for which there are suggestions
C7_Witness ==
    /\ LastCall.has_function
    /\ LastCall.function \in single_class_functions
    /\ LastArgs # <<>>
    /\ ResolvedArg(1) = None
    /\ LastOutput.kind = "class_not_found"
    /\ LastOutput.message.suggestions # <<>>

IsFunctionStep(step) == step.has_function

\* the function steps of a plan, in plan order
FunctionStepsOf(steps) == SelectSeq(steps, IsFunctionStep)

\* run_natural_language_query has ended, by a return or by an exception
QueryEnded == pc \in {"returned", "raised"}

\* C8: for every multi-step plan run_natural_language_query executes every
\* function step: the response has as many individual results as the plan
\* has function steps, the i-th being that of the i-th function step,
\* whichever steps end in a not-found or an inline error result.
C8_EveryFunctionStepReported ==
    (plan.kind = "list" /\ QueryEnded) =>
        /\ pc = "returned"
        /\ response.kind = "multi"
        /\ Len(response.individual) = Len(FunctionStepsOf(plan.steps))
        /\ \A i \in 1..Len(response.individual) :
              response.individual[i].function
                 = FunctionStepsOf(plan.steps)[i].function

\* C9: a multi-step plan is executed strictly in plan order, one step at
\* a time: the i-th individual result is the result of the i-th function
\* step, and a synthesis step is given exactly the results of the function
\* steps that precede it in the plan, all of them already completed.
C9_StepsInPlanOrder ==
    plan.kind = "list" =>
        /\ executed = [i \in 1..Len(executed) |-> i]
        /\ pc = "loop" => Len(executed) = step_no - 1
        /\ Len(results) <= Len(FunctionStepsOf(plan.steps))
        /\ \A i \in 1..Len(results) :
              results[i] =
                 execute_single_function(world_classes,
                     FunctionStepsOf(plan.steps)[i]).result
        /\ \A k \in 1..Len(synth_calls) :
              /\ synth_calls[k].at <= Len(executed)
              /\ plan.steps[synth_calls[k].at].step = "analysis"
              /\ synth_calls[k].results =
                    SubSeq(results, 1,
                           Len(FunctionStepsOf(
                                 SubSeq(plan.steps, 1,
                                        synth_calls[k].at - 1))))
        /\ pc = "returned" => response.individual = results

\* a synthesis between two function steps of different results: it was
\* given the first result only, the response has both
C9_Witness ==
    /\ plan.kind = "list"
    /\ pc = "returned"
    /\ Len(response.individual) = 2
    /\ response.individual[1] # response.individual[2]
    /\ Len(synth_calls) = 1
    /\ Len(synth_calls[1].results) = 1

\* C10: explain_relationship and get_reasoning_chain called with two names
\* resolve them in argument order and stop at the first that does not
\* resolve: the not-found message names that argument and the
\* knowledge-base function is not invoked; it is invoked, with the two
\* resolved names, only when both resolve.
C10_TwoNamesResolvedInOrder ==
    (/\ LastCall.has_function
     /\ LastCall.function \in two_class_functions
     /\ Len(LastArgs) >= 2) =>
        IF ResolvedArg(1) = None
        THEN NotFoundMessageFor(LastArgs[1]) /\ last_step.kb = <<>>
        ELSE IF ResolvedArg(2) = None
        THEN NotFoundMessageFor(LastArgs[2]) /\ last_step.kb = <<>>
        ELSE /\ last_step.exc = ""
             /\ LastOutput.kind = "kb_result"
             /\ last_step.kb = <<[function |-> LastCall.function,
                                  args |-> <<ResolvedArg(1),
                                             ResolvedArg(2)>>]>>

\* the first name resolves to another spelling, the second does not resolve
C10_Witness ==
    /\ LastCall.has_function
    /\ LastCall.function \in two_class_functions
    /\ Len(LastArgs) >= 2
    /\ ResolvedArg(1) \notin {None, LastArgs[1]}
    /\ ResolvedArg(2) = None
    /\ LastOutput.kind = "class_not_found"
    /\ LastOutput.name = LastArgs[2]

\* the operations of the knowledge base that take class names
class_operations == single_class_functions \cup two_class_functions

\* the positions of the class names among the arguments of func
ClassNamePositions(func) == IF func \in two_class_functions THEN {1, 2} ELSE {1}

\* the function steps handled so far, by their positions in the plan
ExecutedFunctionSteps ==
    {executed[i] : i \in {j \in 1..Len(executed) :
                              plan.steps[executed[j]].has_function}}

\* the position in the plan of the last executed call
LastPosition ==
    CHOOSE k \in ExecutedFunctionSteps : \A m \in ExecutedFunctionSteps : m <= k

\* C11: whenever execute_single_function invokes a class operation of the
\* knowledge base, each class-name argument it passes is what the resolver
\* returns for the typed text, a class of the current candidate set in its
\* stored casing, and that name stands in the plan's argument list in place
\* of the typed text.
C11_ResolvedNamesSubstituted ==
    (/\ LastCall.has_function
     /\ LastCall.function \in class_operations
     /\ last_step.kb # <<>>) =>
        \A k \in ClassNamePositions(LastCall.function) :
            /\ last_step.kb[1].args[k] = ResolvedArg(k)
            /\ last_step.kb[1].args[k] \in world_classes
            /\ plan.steps[LastPosition].arguments[k] = ResolvedArg(k)

\* a typed name Aca reached the knowledge base as the class Abca
C11_Witness ==
    /\ LastCall.has_function
    /\ LastCall.function \in single_class_functions
    /\ last_step.kb # <<>>
    /\ LastArgs[1] \notin world_classes
    /\ lower(LastArgs[1]) # lower(last_step.kb[1].args[1])
    /\ plan.steps[LastPosition].arguments[1] = last_step.kb[1].args[1]

\* the operations of the menu that take the name of a class or of a
\* property
entity_name_operations == class_operations \cup {"get_property_details"}

\* C12: for every operation that takes an entity-name argument,
\* get_property_details included, the knowledge-base function is invoked
\* with what the resolver returned for the typed name, never with a name
\* that did not pass through the resolver.
C12_EveryEntityNameResolved ==
    (/\ LastCall.has_function
     /\ LastCall.function \in entity_name_operations
     /\ last_step.kb # <<>>) =>
        \A k \in ClassNamePositions(LastCall.function) :
            last_step.kb[1].args[k] = ResolvedArg(k)

\* the call had the number of arguments its operation takes
WellFormedCall(call) ==
    IF call.function \in one_parameter_functions
         \/ call.function = "search_classes_by_keyword"
    THEN Len(call.arguments) = 1
    ELSE IF call.function = "get_related_concepts"
    THEN Len(call.arguments) \in {1, 2}
    ELSE IF call.function \in two_class_functions
    THEN Len(call.arguments) = 2
    ELSE Len(call.arguments) = 0

\* C14: an exception raised while a dispatched operation runs, the one
\* raised for too few or too many arguments included, leaves neither
\* execute_single_function nor run_natural_language_query: the step has a
\* result and the query returns.
C14_NoExceptionLeavesTheExecutor ==
    /\ last_step.exc = ""
    /\ pc # "raised"
    /\ (LastCall.has_function /\ ~WellFormedCall(LastCall)) =>
           last_step.result.function = LastCall.function

\* the operations of the planner's menu
menu_operations ==
    entity_name_operations
      \cup {"search_classes_by_keyword", "list_classes", "get_ontology_stats"}

\* the text of the last executed step, by its kind
LastText ==
    IF LastOutput.kind = "kb_result"
    THEN knowledge_base_output(onto, world_classes, last_step.kb[1])
    ELSE LastOutput.kind

\* C15: while no knowledge base is loaded (onto is None), every operation
\* of the menu executed through execute_single_function returns the
\* message that no ontology is loaded, not a class-not-found message, an
\* empty listing or a no-results message.
C15_NothingLoadedIsReported ==
    (/\ onto = "None"
     /\ LastCall.has_function
     /\ LastCall.function \in menu_operations
     /\ WellFormedCall(LastCall)) =>
        /\ last_step.exc = ""
        /\ LastText = NO_ONTOLOGY_LOADED

(***************************************************************************)
(* Properties of the query planner                                         *)
(***************************************************************************)
\* the reply the reasoning service gave to the query
ReplyOf == llm_calls[1].reply

HasFence(reply) == \E i \in 1..Len(reply) : reply[i] = FENCE

\* the positions of a reply that are neither a fence marker nor the word
\* json right after one
KeptPositions(reply) ==
    {i \in 1..Len(reply) :
        /\ reply[i] # FENCE
        /\ ~(i > 1 /\ reply[i] = JSON_WORD /\ reply[i - 1] = FENCE)}

\* the k-th smallest element of a set of positions
KthPosition(S, k) == CHOOSE i \in S : Cardinality({j \in S : j < i}) = k - 1

\* the reply without its code-fence markers
WithoutMarkers(reply) ==
    [k \in 1..Cardinality(KeptPositions(reply)) |->
        reply[KthPosition(KeptPositions(reply), k)]]

\* the positions of a text that are not white space
InkPositions(text) == {i \in 1..Len(text) : text[i] # WHITESPACE}

\* a text without the white space around it
Trimmed(text) ==
    IF InkPositions(text) = {} THEN <<>>
    ELSE SubSeq(text, KthPosition(InkPositions(text), 1),
                KthPosition(InkPositions(text),
                            Cardinality(InkPositions(text))))

\* the text is one JSON value
IsJsonText(text) == Trimmed(text) = <<JSON_VALUE>>

\* the reply has been received and parsing was attempted
ParsingAttempted == pc \notin {"idle", "classified", "planned"}

\* the query returned the parse-failure text, the reasoning service was
\* called once and no operation was executed
ParseFailureReturned ==
    /\ pc = "returned"
    /\ response.kind = "parse_failure"
    /\ response.text[1] = FAILED_TO_PARSE
    /\ Len(llm_calls) = 1
    /\ kb_calls = <<>>
    /\ executed = <<>>
    /\ last_step = NoStep

\* C13 as stated: when the reply is not valid JSON once the code-fence
\* markers are stripped, run_natural_language_query returns a parse-failure
\* text that contains the raw reply, the reasoning service was called
\* exactly once and no ontology operation was executed.
C13_ParseFailureShowsRawReply ==
    (ParsingAttempted /\ ~IsJsonText(WithoutMarkers(ReplyOf))) =>
        /\ ParseFailureReturned
        /\ IsSubstring(ReplyOf, response.text)

\* C13 amended: the parse-failure text contains the reply as it was given
\* to the parser: with the code-fence markers removed and the surrounding
\* white space trimmed when the reply had a marker, unchanged otherwise.
C13_ParseFailureShowsParsedText ==
    /\ (ParsingAttempted /\ ~IsJsonText(WithoutMarkers(ReplyOf))) =>
          /\ ParseFailureReturned
          /\ response.text =
                <<FAILED_TO_PARSE>> \o
                   (IF HasFence(ReplyOf)
                    THEN Trimmed(WithoutMarkers(ReplyOf))
                    ELSE ReplyOf)
    /\ (ParsingAttempted /\ IsJsonText(WithoutMarkers(ReplyOf))) =>
          response.kind # "parse_failure"

\* a fenced reply that does not parse: the text shown has lost the markers
C13_Witness ==
    /\ ParsingAttempted
    /\ response.kind = "parse_failure"
    /\ HasFence(ReplyOf)
    /\ Len(response.text) > 1
    /\ ~IsSubstring(ReplyOf, response.text)

\* the fixed trigger phrases of the code
FixedTriggers == {complex_indicators[i] : i \in 1..Len(complex_indicators)}

COMPARE == <<99, 111, 109, 112, 97, 114, 101>>
ANALYZE == <<97, 110, 97, 108, 121, 122, 101>>
OVERVIEW == <<111, 118, 101, 114, 118, 105, 101, 119>>
OVERVIEW_OF == <<111, 118, 101, 114, 118, 105, 101, 119, 32, 111, 102>>

\* the lower-cased query text contains one of the triggers
ContainsOneOf(triggers) ==
    \E w \in triggers : IsSubstring(w, lower(user_input))

\* the reasoning service was asked for the sequence form exactly if the
\* query was classified complex, and was given the query text
FormRequestedAsClassified ==
    \A i \in 1..Len(llm_calls) :
        /\ llm_calls[i].prompt = user_input
        /\ llm_calls[i].system_prompt = "MULTI_STEP_TOOLS_DESCRIPTION"
              <=> use_multi_step

\* C16 as stated: a query is classified complex exactly when its
\* lower-cased text contains one of the fixed trigger words, which include
\* "compare", "analyze" and "overview", and the sequence form is requested
\* for exactly the queries classified complex.
C16_ComplexIffTriggerWord ==
    pc # "idle" =>
        /\ use_multi_step <=>
              ContainsOneOf(FixedTriggers \cup {COMPARE, ANALYZE, OVERVIEW})
        /\ FormRequestedAsClassified

\* C16 amended: the fixed trigger phrases include "compare", "analyze" and
\* "overview of" (not "overview" alone).
C16_ComplexIffTriggerPhrase ==
    pc # "idle" =>
        /\ use_multi_step <=> ContainsOneOf(FixedTriggers)
        /\ {COMPARE, ANALYZE, OVERVIEW_OF} \subseteq FixedTriggers
        /\ FormRequestedAsClassified

\* "Compare..." typed with a capital is complex and the sequence form was
\* requested
C16_Witness ==
    /\ Len(llm_calls) = 1
    /\ use_multi_step
    /\ ~ContainsOneOf({ANALYZE, OVERVIEW_OF})
    /\ IsSubstring(COMPARE, lower(user_input))
    /\ ~IsSubstring(COMPARE, user_input)
    /\ llm_calls[1].system_prompt = "MULTI_STEP_TOOLS_DESCRIPTION"

(***************************************************************************)
(* Properties of the resolver: scenarios and case                          *)
(***************************************************************************)
\* the typed name is contained in the class name or contains it, ignoring
\* case
SubstringRelated(c) ==
    \/ IsSubstring(lower(input_name), lower(c))
    \/ IsSubstring(lower(c), lower(input_name))

\* get_class_suggestions was called for at least one suggestion
SuggestionsAsked == sug_result.type # "pending" /\ max_suggestions >= 1

\* C17: when the input equals no candidate ignoring case but is a
\* case-insensitive substring of a candidate, get_class_suggestions
\* returns type "suggestions" and the first element is a candidate of the
\* substring tier; with the classes PaidInCapital, CapitalSurplus,
\* OwnersEquity and the input "PaidInCapit" the result is not exact and
\* PaidInCapital is the first suggestion.
C17_SubstringMatchFirst ==
    /\ (/\ SuggestionsAsked
        /\ ~HasCaseInsensitiveEqual
        /\ \E c \in world_classes :
              IsSubstring(lower(input_name), lower(c))) =>
          /\ sug_result.type = "suggestions"
          /\ sug_result.suggestions[1] \in world_classes
          /\ SubstringRelated(sug_result.suggestions[1])
    /\ (/\ SuggestionsAsked
        /\ world_classes = AccountingEquityClasses
        /\ input_name = PaidInCapit) =>
          /\ sug_result.type = "suggestions"
          /\ sug_result.suggestions[1] = PaidInCapital

\* the scenario: "PaidInCapit" typed against the three classes
C17_Witness ==
    /\ world_classes = AccountingEquityClasses
    /\ input_name = PaidInCapit
    /\ sug_result.type = "suggestions"
    /\ sug_result.suggestions[1] = PaidInCapital

\* "ShareholderEquity" typed against classes among which is
\* ShareholdersEquity, and both functions called with the default number of
\* suggestions
ShareholderEquityResolved ==
    /\ ShareholdersEquity \in world_classes
    /\ input_name = ShareholderEquity
    /\ ~HasCaseInsensitiveEqual
    /\ max_suggestions = DEFAULT_MAX_SUGGESTIONS
    /\ sug_result.type # "pending"
    /\ fuzzy_result # Pending

\* C18 as stated: for every candidate set that contains ShareholdersEquity
\* and no case-insensitive equal of the input, the input
\* "ShareholderEquity" yields a non-empty suggestion list and
\* resolve_class_name_fuzzy returns ShareholdersEquity, whatever the other
\* names.
C18_ResolvedWhateverTheOthers ==
    ShareholderEquityResolved =>
        /\ sug_result.suggestions # <<>>
        /\ fuzzy_result = ShareholdersEquity

\* the other classes that are substring-related to the input
SubstringRelatedOthers ==
    {c \in world_classes \ {ShareholdersEquity} : SubstringRelated(c)}

\* no other class is as similar to the input as ShareholdersEquity
NoOtherAsSimilar ==
    \A c \in world_classes \ {ShareholdersEquity} :
        ~FracGE(ratio(c, input_name), ratio(ShareholdersEquity, input_name))

\* C18 amended: the suggestion list is non-empty whatever the other names;
\* resolve_class_name_fuzzy returns ShareholdersEquity provided at most two
\* other names contain the input or are contained in it (ignoring case)
\* and no other name is as similar to the input as ShareholdersEquity.
C18_ResolvedUnlessCrowdedOut ==
    ShareholderEquityResolved =>
        /\ sug_result.suggestions # <<>>
        /\ (Cardinality(SubstringRelatedOthers) <= 2 /\ NoOtherAsSimilar) =>
              fuzzy_result = ShareholdersEquity

\* ShareholdersEquity is the third suggestion, after two substring matches,
\* and is the name resolved
C18_Witness ==
    /\ ShareholderEquityResolved
    /\ Cardinality(SubstringRelatedOthers) = 2
    /\ Len(sug_result.suggestions) = 3
    /\ sug_result.suggestions[3] = ShareholdersEquity
    /\ fuzzy_result = ShareholdersEquity

\* the typed names that equal the input ignoring case
CaseVariants ==
    {n \in TypedNames \cup ScenarioNames \cup {ShareholdersEquity} :
        EqualIgnoringCase(n, input_name)}

\* C19: name resolution does not depend on the case of the input: for any
\* two inputs equal ignoring case get_class_suggestions returns the same
\* result and resolve_class_name_fuzzy the same name, for every candidate
\* set.
C19_CaseOfInputIrrelevant ==
    \A other \in CaseVariants :
        /\ SuggestionsAsked =>
              get_class_suggestions(world_classes, other, max_suggestions)
                 = sug_result
        /\ fuzzy_result # Pending =>
              resolve_class_name_fuzzy(world_classes, other) = fuzzy_result

(***************************************************************************)
(* C20                                                                     *)
(***************************************************************************)
\* the step returned the not-found message for its name
NotFoundReturned ==
    step_pc = "returned" /\ step_output.kind = "class_not_found"

\* the message the candidates read by the resolver call give for a name
MessageOfSnapshot(candidates, name) ==
    format_suggestions_message(NamesOf(candidates), name)

\* the resolver call of a step leaves the candidate set and the globals of
\* the loaded modules as they are
ResolutionOnlyReads ==
    ResolveName => UNCHANGED <<world_classes, onto, CURRENT_MODULE_SET,
                               MODULE_FILES>>

\* C20: within one executed step the suggestions shown in the not-found
\* message are computed from the candidates the resolver call of the step
\* read, also when load_fibo_modules of another session runs in between, and
\* the resolver call changes neither the candidate set nor the globals of
\* the loaded modules
C20_OneSnapshotPerStep ==
    /\ [](NotFoundReturned =>
            step_output.message
              = MessageOfSnapshot(resolved_against, original_name))
    /\ [][ResolutionOnlyReads]_vars

(***************************************************************************)
(* C21                                                                     *)
(***************************************************************************)
\* the distinct characters of the lower-cased typed name
InputChars == CharSet(lower(input_name))

\* the characters of the typed name that candidate c has too
CommonChars(c) == InputChars \cap CharSet(lower(c))

\* more than 2 distinct characters typed and a share of common characters
\* strictly above 3/4
OverlapsEnough(c) ==
    /\ Cardinality(InputChars) > 2
    /\ 4 * Cardinality(CommonChars(c)) > 3 * Cardinality(InputChars)

\* the position of class c in the candidate set
CandidatePosition(c) ==
    CHOOSE i \in 1..Len(get_class_candidates(world_classes)) :
       get_class_candidates(world_classes)[i] = c

\* candidate c is listed before candidate d: by the larger share of common
\* characters, by the position in the candidate set for equal shares
ListedBefore(c, d) ==
    \/ Cardinality(CommonChars(c)) > Cardinality(CommonChars(d))
    \/ /\ Cardinality(CommonChars(c)) = Cardinality(CommonChars(d))
       /\ CandidatePosition(c) < CandidatePosition(d)

\* get_class_suggestions went through its tiers: it found candidates, no
\* exact match, and returned
TierComputed ==
    /\ world_classes # {}
    /\ sug_result.type \in {"suggestions", "none"}

\* C21: the character-overlap tier of a call holds exactly the candidates
\* with more than 2 distinct characters typed and a share of common
\* characters strictly above 0.75, each once, by descending share, equal
\* shares in the order of the candidate set
C21_CharOverlapTier ==
    TierComputed =>
       /\ NamesOf(CharOverlapTier) = {c \in world_classes : OverlapsEnough(c)}
       /\ \A i, j \in 1..Len(CharOverlapTier) :
             i < j => ListedBefore(CharOverlapTier[i], CharOverlapTier[j])

\* a call whose tier lists a candidate of a smaller share after one of a
\* larger share, two of equal share, and leaves out one of share 3/4 exactly
C21_Witness ==
    /\ TierComputed
    /\ \E i, j \in 1..Len(CharOverlapTier) :
          /\ i < j
          /\ Cardinality(CommonChars(CharOverlapTier[i]))
               > Cardinality(CommonChars(CharOverlapTier[j]))
    /\ \E i, j \in 1..Len(CharOverlapTier) :
          /\ i < j
          /\ Cardinality(CommonChars(CharOverlapTier[i]))
               = Cardinality(CommonChars(CharOverlapTier[j]))
    /\ \E c \in world_classes :
          4 * Cardinality(CommonChars(c)) = 3 * Cardinality(InputChars)

(***************************************************************************)
(* C22                                                                     *)
(***************************************************************************)
\* C22: for every reply of the reasoning service that parses as JSON,
\* whatever the plan it stands for (an object with or without a function,
\* a list of objects and scalars, argument lists of any length),
\* run_natural_language_query ends by returning a text and raises nothing
C22_EveryParsedPlanAnswered ==
    (plan # NoPlan /\ QueryEnded) =>
        /\ pc = "returned"
        /\ response.kind \in {"single", "multi", "invalid_plan_format"}

(***************************************************************************)
(* C23                                                                     *)
(***************************************************************************)
\* the class has the keyword of the call in its name, in one of its labels
\* or in one of its comments, ignoring case
HasKeyword(cls) ==
    \/ IsSubstring(lower(kb_call.name), lower(cls.name))
    \/ AnyContains(lower(kb_call.name), cls.label)
    \/ AnyContains(lower(kb_call.name), cls.comment)

\* the classes of the knowledge base that have the keyword
ClassesWithKeyword ==
    {ontology_classes[i].name :
        i \in {k \in 1..Len(ontology_classes) :
                  HasKeyword(ontology_classes[k])}}

SearchReturned ==
    kb_pc = "returned" /\ kb_call.function = "search_classes_by_keyword"

\* C23: search_classes_by_keyword lists each matching class at most once,
\* the number of its header is the number of distinct classes that have the
\* keyword in name, label or comment, and it returns "No classes found"
\* exactly when that number is 0
C23_EachMatchingClassOnce ==
    SearchReturned =>
       /\ \A i, j \in 1..Len(kb_output.listed) :
             kb_output.listed[i].name = kb_output.listed[j].name => i = j
       /\ kb_output.count = Cardinality(ClassesWithKeyword)
       /\ kb_output.kind = "no_classes_found"
             <=> Cardinality(ClassesWithKeyword) = 0

(***************************************************************************)
(* C24                                                                     *)
(***************************************************************************)
\* the classes one superclass or subclass edge away from a class of S
OneEdgeFrom(S) ==
    {c \in world_classes :
        \E n \in S : \/ c \in ClassOf(ontology_classes, n).is_a
                     \/ n \in ClassOf(ontology_classes, c).is_a}

\* the classes at distance at most d from the start class of the call
RECURSIVE WithinDistance(_)
WithinDistance(d) ==
    IF d <= 0 THEN {kb_call.name}
    ELSE WithinDistance(d - 1) \cup OneEdgeFrom(WithinDistance(d - 1))

\* the classes at distance exactly d, for d >= 1
AtDistance(d) == WithinDistance(d) \ WithinDistance(d - 1)

\* the names reported under depth d
ReportedAt(d) ==
    IF d \in DOMAIN kb_output.by_depth
    THEN NamesOf(kb_output.by_depth[d]) ELSE {}

RelatedConceptsReturned ==
    /\ kb_pc = "returned"
    /\ kb_call.function = "get_related_concepts"
    /\ kb_call.name \in world_classes

\* what is reported is, under every depth d of 1..max_depth, the classes at
\* shortest distance d from the start class, each once, and nothing else
ReportedByShortestDistance ==
    RelatedConceptsReturned =>
       /\ DOMAIN kb_output.by_depth \subseteq 1..kb_call.max_depth
       /\ \A d \in 1..MaxDepth + 1 :
             /\ ReportedAt(d)
                  = IF d <= kb_call.max_depth THEN AtDistance(d) ELSE {}
             /\ d \in DOMAIN kb_output.by_depth =>
                   Len(kb_output.by_depth[d]) = Cardinality(ReportedAt(d))

\* C24: for every finite class graph, cycles included, get_related_concepts
\* terminates and reports exactly the named classes other than the start
\* class whose shortest distance d over superclass and subclass edges is
\* in 1..max_depth, each under depth d only and once
C24_RelatedByShortestDistance ==
    /\ [](ReportedByShortestDistance)
    /\ (kb_pc = "related_loop") ~> (kb_pc = "returned")

\* a returned call on a graph with a cycle through the start class, with a
\* class at distance 1 and a class at distance 2 reported
C24_Witness ==
    /\ RelatedConceptsReturned
    /\ \E c \in world_classes :
          /\ c \in ClassOf(ontology_classes, kb_call.name).is_a
          /\ kb_call.name \in ClassOf(ontology_classes, c).is_a
    /\ ReportedAt(1) # {}
    /\ ReportedAt(2) # {}

(***************************************************************************)
(* C25                                                                     *)
(***************************************************************************)
\* C25: get_all_superclasses terminates and returns a text for every finite
\* class hierarchy, one whose is_a relation has a cycle included
C25_AllSuperclassesTerminates ==
    (kb_pc = "levels_loop") ~> (kb_pc = "returned")

\* a module-set function has just been called with a name that is no key of
\* MODULE_SETS
InvalidNameCalled ==
    /\ NextModules
    /\ module_call'.name \notin MODULE_SETS

\* the result reports the invalid name
ErrorResult(r) ==
    \/ r.kind = "text" /\ \E i \in 1..Len(r.text) :
                              r.text[i] = "invalid_module_set"
    \/ r.kind = "dict" /\ ~r.success

ModuleGlobalsConsistent ==
    /\ CURRENT_MODULE_SET \in MODULE_SETS
    /\ MODULE_FILES = MODULES(CURRENT_MODULE_SET)

InvalidNameChangesNothing ==
    InvalidNameCalled =>
        /\ ErrorResult(module_result')
        /\ UNCHANGED <<CURRENT_MODULE_SET, MODULE_FILES, onto, onto_world,
                       default_world, world_classes>>

\* C26: after any sequence of calls of load_fibo_modules, switch_module_set
\* and switch_fibo_module_set, CURRENT_MODULE_SET is a key of MODULE_SETS and
\* MODULE_FILES is the module list of that key; a call with a name that is
\* no key returns a result reporting the error and changes none of
\* CURRENT_MODULE_SET, MODULE_FILES, onto and the default world
C26_ModuleGlobalsConsistent ==
    [](ModuleGlobalsConsistent) /\ [][InvalidNameChangesNothing]_vars

\* C26 witness: after a set has been loaded, switch_module_set has been
\* called with a name that is no key
C26_Witness ==
    /\ module_call.function = "switch_module_set"
    /\ module_call.name \notin MODULE_SETS
    /\ onto # "None"
    /\ CURRENT_MODULE_SET # DEFAULT_MODULE_SET

\* C27: after every call of load_fibo_modules with a key of MODULE_SETS, onto
\* is None or an ontology of the world that is now the default world
C27_OntoOfDefaultWorld ==
    (/\ module_call.function = "load_fibo_modules"
     /\ module_call.name \in MODULE_SETS)
        => (onto = "None" \/ onto_world = default_world)

\* the call returned without reporting an error
ReturnedWithoutError(r) ==
    \/ r.kind = "text" /\ ~ErrorResult(r)
    \/ r.kind = "dict" /\ r.success

\* C28: after switch_module_set or switch_fibo_module_set has returned for a
\* key of MODULE_SETS without an error, the knowledge base is loaded: onto
\* is not None
C28_SwitchLoads ==
    (/\ module_call.function \in {"switch_module_set",
                                   "switch_fibo_module_set"}
     /\ module_call.name \in MODULE_SETS
     /\ ReturnedWithoutError(module_result))
        => onto # "None"

\* run_query_with_module_awareness has returned to run_query
QueryHandled == ui_pc \in {"handled", "done"}

\* the lower-cased text of the query contains a module-switch phrase
HasSwitchPhrase == first_keyword(lower(query)) # 0

\* the set of the first phrase, in the order of the table, that the
\* lower-cased text contains
RequestedSet == module_keywords[first_keyword(lower(query))].module_name

\* neither the reasoning service nor an operation of a plan has been used
NothingPlannedOrExecuted ==
    /\ pc = "idle"
    /\ llm_calls = <<>>
    /\ kb_calls = <<>>
    /\ executed = <<>>
    /\ last_step = NoStep

SwitchPerformedAndReturned ==
    /\ module_call = [function |-> "switch_fibo_module_set",
                      name |-> RequestedSet]
    /\ CURRENT_MODULE_SET = RequestedSet
    /\ last_result = [kind |-> "switch_result", of |-> module_result]

MultiStepFormRequested ==
    /\ llm_calls # <<>>
    /\ \A i \in 1..Len(llm_calls) :
           /\ llm_calls[i].prompt = query
           /\ llm_calls[i].system_prompt = "MULTI_STEP_TOOLS_DESCRIPTION"

\* C30: whenever the web interface has announced a query as "Multi-step
\* reasoning", the planner has asked the reasoning service for the
\* multi-step plan form for that query; the flags run_query and
\* force_multistep are False after the query has been handled
C30_AnnouncedFormRequested ==
    /\ (QueryHandled /\ query_type = "Multi-step reasoning") =>
           MultiStepFormRequested
    /\ (ui_pc = "done") => (~run_query /\ ~force_multistep)

====
